---- MODULE Spec2Model ----
(***************************************************************************)
(* Model of the simulation engine of the mutual fund analyser              *)
(* (utils/financials: getNAV, simulateInvestment, generateBacktestData,    *)
(* calculateXIRR, calculateMaxDrawdown, calculateBeta,                      *)
(* calculatePortfolioStats, calculateFundRatios).                          *)
(*                                                                         *)
(* Dates are JavaScript local-midnight Date objects: records [y, m, d]     *)
(* with m the 0-based month of Date.getMonth().  Date strings are the      *)
(* '-'-separated fields of the text, mapped through Number.                *)
(* Unit balances are exact fractions with the common denominator           *)
(* UnitScale (every NAV of the model divides it), so amount / nav and      *)
(* units * nav are exact and Math.round is computed on the exact value     *)
(* (the rounding error of the double arithmetic is not modelled).          *)
(***************************************************************************)
EXTENDS Integers, Sequences, FiniteSets, TLC

VARIABLES
    today,              \* new Date() with setHours(0,0,0,0)
    investments,        \* Investment[] handed to the engine
    benchmarkHistory,   \* NAVData[] of the benchmark ([] when none)
    pc,                 \* position of the caller
    cursorDate,         \* generateBacktestData: cursorDate
    portfolio,          \* generateBacktestData: portfolio (internal copies)
    benchmarkUnits,     \* generateBacktestData: benchmarkUnits
    dataPoints,         \* generateBacktestData: dataPoints
    iterLog,            \* history: one entry per loop iteration
    postLog,            \* history: payment dates posted per portfolio entry
    simResults,         \* simulateInvestment(inv, inv.navHistory) per investment
    navArgs,            \* arguments of a getNAV call
    navResult,          \* its result
    stats,              \* calculatePortfolioStats(...): PortfolioMetrics
    ratios,             \* calculateFundRatios(...): funds and portfolio
    xirr,               \* calculateXIRR: arguments, locals and result
    callArgs,           \* arguments of a call of a helper
    callResult,         \* its result
    selectedInvestmentId, \* App: id of the selected investment or null
    isProcessing,       \* App: isProcessing
    benchmarkScheme,    \* App: the selected benchmark scheme or null
    addCalls,           \* the calls of handleAddInvestment, by position
    benchmarkCalls,     \* the calls of handleBenchmarkSelect with a scheme
    fileReads,          \* the FileReader reads started by handleFileChange
    component,          \* the component whose fund search is followed
    query,              \* search: query
    results,            \* search: results
    isSearching,        \* search: isSearching
    searchTimeout,      \* search: searchTimeout.current (a timer or null)
    timers              \* the timers set by the search effect, by position

vars == <<today, investments, benchmarkHistory, pc, cursorDate, portfolio,
          benchmarkUnits, dataPoints, iterLog, postLog, simResults,
          navArgs, navResult, stats, ratios, xirr, callArgs, callResult,
          selectedInvestmentId, isProcessing, benchmarkScheme, addCalls,
          benchmarkCalls, fileReads, component, query, results, isSearching,
          searchTimeout, timers>>

\* the state of the replay and of the lookups / of the metrics
engineVars == <<today, investments, benchmarkHistory, cursorDate, portfolio,
                benchmarkUnits, dataPoints, iterLog, postLog, simResults,
                navArgs, navResult>>
metricVars == <<stats, ratios, xirr, callArgs, callResult>>
\* the state of the App component beside investments and benchmarkHistory,
\* and the state of a debounced fund search
appVars == <<selectedInvestmentId, isProcessing, benchmarkScheme, addCalls,
             benchmarkCalls, fileReads>>
searchVars == <<component, query, results, isSearching, searchTimeout, timers>>
uiVars == <<appVars, searchVars>>

(***************************************************************************)
(* Bounds                                                                  *)
(***************************************************************************)
MaxInvestments == 2
MaxSamples == 3

(***************************************************************************)
(* Calendar: the Date constructor                                          *)
(***************************************************************************)
IsLeapYear(y) == (y % 4 = 0 /\ y % 100 # 0) \/ y % 400 = 0

MonthLength(y, m) ==
    IF m = 1 THEN (IF IsLeapYear(y) THEN 29 ELSE 28)
    ELSE IF m \in {3, 5, 8, 10} THEN 30 ELSE 31

\* new Date(y, m, d): month and day overflow are carried, day 0 is the last
\* day of the previous month.
RECURSIVE NewDate(_, _, _)
NewDate(y, m, d) ==
    LET yy == y + (m \div 12)
        mm == m % 12
    IN  IF d < 1 THEN
            LET py == IF mm = 0 THEN yy - 1 ELSE yy
                pm == IF mm = 0 THEN 11 ELSE mm - 1
            IN  NewDate(py, pm, d + MonthLength(py, pm))
        ELSE IF d > MonthLength(yy, mm) THEN
            NewDate(yy, mm + 1, d - MonthLength(yy, mm))
        ELSE [y |-> yy, m |-> mm, d |-> d]

\* Date.getTime(), up to an order-preserving map
getTime(dt) == (dt.y * 12 + dt.m) * 32 + dt.d

\* the whole days of Date.getTime(): getTime() / (1000 * 60 * 60 * 24),
\* counted from a fixed day
RECURSIVE DaysBeforeMonth(_, _)
DaysBeforeMonth(y, m) ==
    IF m = 0 THEN 0 ELSE DaysBeforeMonth(y, m - 1) + MonthLength(y, m - 1)

DayNumber(dt) ==
    365 * dt.y + (dt.y - 1) \div 4 - (dt.y - 1) \div 100 + (dt.y - 1) \div 400
        + DaysBeforeMonth(dt.y, dt.m) + dt.d

\* the constructor as the parsers call it: a year from 0 to 99 is 1900 + year
DateCtor(y, m, d) == NewDate(IF y >= 0 /\ y <= 99 THEN 1900 + y ELSE y, m, d)

\* Invalid Date: what the constructor gives for an undefined (NaN) argument
InvalidDate == [y |-> 0, m |-> 0, d |-> 0]

\* "dd-mm-yyyy" (API format): [d, m, y] = dateStr.split('-').map(Number)
parseAPIDate(dateStr) ==
    IF Len(dateStr) < 3 THEN InvalidDate
    ELSE DateCtor(dateStr[3], dateStr[2] - 1, dateStr[1])

\* "yyyy-mm-dd" (input format): [y, m, d] = dateStr.split('-').map(Number)
parseISODate(dateStr) ==
    IF Len(dateStr) < 3 THEN InvalidDate
    ELSE DateCtor(dateStr[1], dateStr[2] - 1, dateStr[3])

\* the text of a calendar date in each format
APIText(y, m, d) == <<d, m + 1, y>>
ISOText(y, m, d) == <<y, m + 1, d>>

(***************************************************************************)
(* NAV values                                                              *)
(***************************************************************************)
\* nav strings of the model and what parseFloat makes of them
NavStrings == {"0.0000", "3.0000", "4.0000", "5.0000", "6.0000"}

parseFloat(s) ==
    CASE s = "0.0000" -> 0
      [] s = "3.0000" -> 3
      [] s = "4.0000" -> 4
      [] s = "5.0000" -> 5
      [] s = "6.0000" -> 6

\* common denominator of unit balances: every non-zero NAV divides it
UnitScale == 3 * 4 * 5

\* amount / nav as a fraction over UnitScale
DivNav(amount, nav) == (amount * UnitScale) \div nav

\* Math.round of the fraction n / UnitScale (n >= 0): half rounds up
Round(n) == (2 * n + UnitScale) \div (2 * UnitScale)

(***************************************************************************)
(* getNAV                                                                  *)
(***************************************************************************)
NotFound == [found |-> FALSE, value |-> 0]
Found(v) == [found |-> TRUE, value |-> v]

\* JavaScript truthiness of a number | null
Truthy(r) == r.found /\ r.value # 0

\* for (i = history.length - 1; i >= 0; i--) if (d >= targetTime) return ...
RECURSIVE PurchaseScan(_, _, _)
PurchaseScan(history, targetTime, i) ==
    IF i < 1 THEN NotFound
    ELSE IF getTime(parseAPIDate(history[i].date)) >= targetTime
         THEN Found(parseFloat(history[i].nav))
         ELSE PurchaseScan(history, targetTime, i - 1)

\* for (const entry of history) if (d <= targetTime) return ...
RECURSIVE ValuationScan(_, _, _)
ValuationScan(history, targetTime, i) ==
    IF i > Len(history) THEN NotFound
    ELSE IF getTime(parseAPIDate(history[i].date)) <= targetTime
         THEN Found(parseFloat(history[i].nav))
         ELSE ValuationScan(history, targetTime, i + 1)

getNAV(history, targetDate, mode) ==
    IF Len(history) = 0 THEN NotFound
    ELSE LET targetTime == getTime(targetDate) IN
         IF mode = "PURCHASE" THEN
             LET hit == PurchaseScan(history, targetTime, Len(history)) IN
             IF hit.found THEN hit
             ELSE IF targetTime > getTime(parseAPIDate(history[1].date))
                  THEN Found(parseFloat(history[1].nav))
                  ELSE NotFound
         ELSE ValuationScan(history, targetTime, 1)

(***************************************************************************)
(* simulateInvestment                                                      *)
(***************************************************************************)
Min(a, b) == IF a < b THEN a ELSE b

ZeroResult == [units |-> 0, totalInvested |-> 0, cashFlows |-> <<>>,
               currentValue |-> 0]

\* mutant: the amount is counted as invested although the lookup failed
Buy_CountsFailedLookup(acc, inv, nav, date) ==
    IF Truthy(nav)
    THEN [acc EXCEPT !.units = @ + DivNav(inv.amount, nav.value),
                     !.totalInvested = @ + inv.amount,
                     !.cashFlows = Append(@, [date |-> date,
                                              amount |-> 0 - inv.amount])]
    ELSE [acc EXCEPT !.totalInvested = @ + inv.amount]

\* one contribution: units += amount / nav; totalInvested += amount;
\* cashFlows.push({date, amount: -amount})
Buy(acc, inv, nav, date) ==
    IF Truthy(nav)
    THEN [acc EXCEPT !.units = @ + DivNav(inv.amount, nav.value),
                     !.totalInvested = @ + inv.amount,
                     !.cashFlows = Append(@, [date |-> date,
                                              amount |-> 0 - inv.amount])]
    ELSE acc

\* the payment date of the month of cursorDate
SimPaymentDate(startDate, cursor) ==
    LET maxDayInMonth == NewDate(cursor.y, cursor.m + 1, 0).d
        actualDay == Min(startDate.d, maxDayInMonth)
    IN  NewDate(cursor.y, cursor.m, actualDay)

\* mutant: the end date is not checked
SimIsDue_NoEndCheck(inv, paymentDate, now) ==
    LET startDate == parseISODate(inv.startDate)
        isStarted == getTime(paymentDate) >= getTime(startDate)
        isNotFuture == getTime(paymentDate) <= getTime(now)
    IN  isStarted /\ isNotFuture

\* Validation: isStarted && isNotFuture && isBeforeEnd
SimIsDue(inv, paymentDate, now) ==
    LET startDate == parseISODate(inv.startDate)
        isStarted == getTime(paymentDate) >= getTime(startDate)
        isNotFuture == getTime(paymentDate) <= getTime(now)
        isBeforeEnd == IF inv.endDate # <<>>
                       THEN getTime(paymentDate) <=
                                getTime(parseISODate(inv.endDate))
                       ELSE TRUE
    IN  isStarted /\ isNotFuture /\ isBeforeEnd

\* while (cursorDate <= now) { ... cursorDate.setMonth(getMonth() + 1) }
RECURSIVE SipLoop(_, _, _, _, _)
SipLoop(inv, navHistory, now, cursor, acc) ==
    IF getTime(cursor) > getTime(now) THEN acc
    ELSE
        LET startDate == parseISODate(inv.startDate)
            paymentDate == SimPaymentDate(startDate, cursor)
            next == IF SimIsDue(inv, paymentDate, now)
                    THEN Buy(acc, inv,
                             getNAV(navHistory, paymentDate, "PURCHASE"),
                             paymentDate)
                    ELSE acc
        IN  SipLoop(inv, navHistory, now,
                    NewDate(cursor.y, cursor.m + 1, cursor.d), next)

\* mutant: a lumpsum dated after today is not bought
simulateInvestment_LumpsumNotFuture(inv, navHistory, now) ==
    IF Len(navHistory) = 0 THEN ZeroResult
    ELSE
        LET startDate == parseISODate(inv.startDate)
            acc == IF inv.type = "LUMPSUM"
                   THEN IF getTime(startDate) <= getTime(now)
                        THEN Buy(ZeroResult, inv,
                                 getNAV(navHistory, startDate, "PURCHASE"),
                                 startDate)
                        ELSE ZeroResult
                   ELSE SipLoop(inv, navHistory, now,
                                NewDate(startDate.y, startDate.m, 1),
                                ZeroResult)
            currentNav == parseFloat(navHistory[1].nav)
        IN  [acc EXCEPT !.currentValue = acc.units * currentNav]

simulateInvestment(inv, navHistory, now) ==
    IF Len(navHistory) = 0 THEN ZeroResult
    ELSE
        LET startDate == parseISODate(inv.startDate)
            acc == IF inv.type = "LUMPSUM"
                   THEN Buy(ZeroResult, inv,
                            getNAV(navHistory, startDate, "PURCHASE"),
                            startDate)
                   ELSE SipLoop(inv, navHistory, now,
                                NewDate(startDate.y, startDate.m, 1),
                                ZeroResult)
            currentNav == parseFloat(navHistory[1].nav)
        IN  [acc EXCEPT !.currentValue = acc.units * currentNav]

(***************************************************************************)
(* generateBacktestData                                                    *)
(***************************************************************************)
RECURSIVE SumSeq(_)
SumSeq(q) == IF q = <<>> THEN 0 ELSE Head(q) + SumSeq(Tail(q))

HasData(i) == Len(i.navHistory) > 0 \/ Len(i.counterpartNavHistory) > 0

\* new Date(Math.min(...startDates)); setDate(1)
MinStartMonth(active) ==
    LET first == CHOOSE k \in 1..Len(active) :
                    \A j \in 1..Len(active) :
                        getTime(parseISODate(active[k].startDate)) <=
                        getTime(parseISODate(active[j].startDate))
        minDate == parseISODate(active[first].startDate)
    IN  NewDate(minDate.y, minDate.m, 1)

\* mutant: the copy's series, the array it shares with the investment, is
\* reversed in place
PortfolioEntry_ReversesSeries(inv) ==
    [id |-> inv.id, isDirect |-> inv.isDirect, type |-> inv.type,
     amount |-> inv.amount,
     navHistory |-> [i \in 1..Len(inv.navHistory) |->
                        inv.navHistory[Len(inv.navHistory) + 1 - i]],
     counterpartNavHistory |-> inv.counterpartNavHistory,
     parsedStartDate |-> parseISODate(inv.startDate),
     hasEndDate |-> inv.endDate # <<>>,
     parsedEndDate |-> IF inv.endDate # <<>> THEN parseISODate(inv.endDate)
                       ELSE parseISODate(inv.startDate),
     unitsDirect |-> 0, unitsRegular |-> 0, totalInvested |-> 0,
     hasLumpsumInvested |-> FALSE]

\* the internal copy of an investment, with its accumulators
PortfolioEntry(inv) ==
    [id |-> inv.id, isDirect |-> inv.isDirect, type |-> inv.type,
     amount |-> inv.amount, navHistory |-> inv.navHistory,
     counterpartNavHistory |-> inv.counterpartNavHistory,
     parsedStartDate |-> parseISODate(inv.startDate),
     hasEndDate |-> inv.endDate # <<>>,
     parsedEndDate |-> IF inv.endDate # <<>> THEN parseISODate(inv.endDate)
                       ELSE parseISODate(inv.startDate),
     unitsDirect |-> 0, unitsRegular |-> 0, totalInvested |-> 0,
     hasLumpsumInvested |-> FALSE]

NoPayment == [due |-> FALSE, date |-> [y |-> 0, m |-> 0, d |-> 1]]
Payment(date) == [due |-> TRUE, date |-> date]

\* mutant: the day of month is not clamped to the length of the month
SipPaymentDate_NoClamp(inv, year, month, now) ==
    LET startDay == inv.parsedStartDate.d
        candidateDate == NewDate(year, month, startDay)
        isStarted == getTime(candidateDate) >= getTime(inv.parsedStartDate)
        isNotFuture == getTime(candidateDate) <= getTime(now)
        isBeforeEnd == IF inv.hasEndDate
                       THEN getTime(candidateDate) <= getTime(inv.parsedEndDate)
                       ELSE TRUE
    IN  IF isStarted /\ isNotFuture /\ isBeforeEnd
        THEN Payment(candidateDate) ELSE NoPayment

\* the payment date of a SIP in the month (year, month), if any
SipPaymentDate(inv, year, month, now) ==
    LET startDay == inv.parsedStartDate.d
        maxDayInMonth == NewDate(year, month + 1, 0).d
        actualDay == Min(startDay, maxDayInMonth)
        candidateDate == NewDate(year, month, actualDay)
        isStarted == getTime(candidateDate) >= getTime(inv.parsedStartDate)
        isNotFuture == getTime(candidateDate) <= getTime(now)
        isBeforeEnd == IF inv.hasEndDate
                       THEN getTime(candidateDate) <= getTime(inv.parsedEndDate)
                       ELSE TRUE
    IN  IF isStarted /\ isNotFuture /\ isBeforeEnd
        THEN Payment(candidateDate) ELSE NoPayment

\* mutant: sameMonth compares the year only
LumpsumPaymentDate_YearOnly(inv, year, month) ==
    IF ~inv.hasLumpsumInvested /\ inv.parsedStartDate.y = year
    THEN Payment(inv.parsedStartDate) ELSE NoPayment

\* the payment date of a lumpsum in the month (year, month), if any
LumpsumPaymentDate(inv, year, month) ==
    IF ~inv.hasLumpsumInvested
       /\ inv.parsedStartDate.m = month /\ inv.parsedStartDate.y = year
    THEN Payment(inv.parsedStartDate) ELSE NoPayment

PaymentDate(inv, year, month, now) ==
    IF inv.type = "SIP" THEN SipPaymentDate(inv, year, month, now)
    ELSE LumpsumPaymentDate(inv, year, month)

\* units bought on paymentDate in a series (0 when the lookup gives nothing)
UnitsBought(amount, history, paymentDate) ==
    LET nav == getNAV(history, paymentDate, "PURCHASE")
    IN  IF Truthy(nav) THEN DivNav(amount, nav.value) ELSE 0

\* first forEach of the loop body, for one entry
PostMonth(inv, year, month, now) ==
    LET p == PaymentDate(inv, year, month, now) IN
    IF ~p.due THEN inv
    ELSE
        LET boughtDirect ==
                IF inv.isDirect /\ Len(inv.navHistory) > 0
                THEN UnitsBought(inv.amount, inv.navHistory, p.date)
                ELSE IF ~inv.isDirect /\ Len(inv.counterpartNavHistory) > 0
                THEN UnitsBought(inv.amount, inv.counterpartNavHistory, p.date)
                ELSE 0
            boughtRegular ==
                IF ~inv.isDirect /\ Len(inv.navHistory) > 0
                THEN UnitsBought(inv.amount, inv.navHistory, p.date)
                ELSE IF inv.isDirect /\ Len(inv.counterpartNavHistory) > 0
                THEN UnitsBought(inv.amount, inv.counterpartNavHistory, p.date)
                ELSE 0
        IN  [inv EXCEPT
                !.hasLumpsumInvested = IF inv.type = "LUMPSUM" THEN TRUE ELSE @,
                !.unitsDirect = @ + boughtDirect,
                !.unitsRegular = @ + boughtRegular,
                !.totalInvested = @ + inv.amount]

\* benchmark units bought for one entry in the month
BenchmarkBought(inv, year, month, now, bench) ==
    LET p == PaymentDate(inv, year, month, now) IN
    IF p.due /\ Len(bench) > 0
    THEN UnitsBought(inv.amount, bench, p.date) ELSE 0

\* units * nav at monthEndDate (valuation lookup), 0 without units or NAV
ValueAt(units, history, monthEndDate) ==
    IF units > 0
    THEN LET nav == getNAV(history, monthEndDate, "VALUATION")
         IN  IF Truthy(nav) THEN units * nav.value ELSE 0
    ELSE 0

ValD(inv, monthEndDate) ==
    ValueAt(inv.unitsDirect,
            IF inv.isDirect THEN inv.navHistory ELSE inv.counterpartNavHistory,
            monthEndDate)

ValR(inv, monthEndDate) ==
    ValueAt(inv.unitsRegular,
            IF ~inv.isDirect THEN inv.navHistory ELSE inv.counterpartNavHistory,
            monthEndDate)

\* mutant: the actual total takes the Direct scenario whatever plan is held
ActualVal_AlwaysDirect(inv, monthEndDate) == ValD(inv, monthEndDate)

ActualVal(inv, monthEndDate) ==
    IF inv.isDirect THEN ValD(inv, monthEndDate) ELSE ValR(inv, monthEndDate)

CounterpartVal(inv, monthEndDate) ==
    IF inv.isDirect THEN ValR(inv, monthEndDate) ELSE ValD(inv, monthEndDate)

\* monthEndDate.toLocaleDateString('en-US', {month: 'short', year: '2-digit'})
MonthLabel(dt) == <<dt.m, dt.y % 100>>

Undefined == [defined |-> FALSE, value |-> 0]
Defined(v) == [defined |-> TRUE, value |-> v]

\* mutant: a snapshot is pushed for a month with nothing invested
EmitsSnapshot_NonNegative(totalInvested) == totalInvested >= 0

\* if (totalInvested > 0) dataPoints.push(...)
EmitsSnapshot(totalInvested) == totalInvested > 0

MonthEndDate(year, month, now) ==
    LET monthEnd == NewDate(year, month + 1, 0)
    IN  IF getTime(monthEnd) > getTime(now) THEN now ELSE monthEnd

\* the snapshot of a month from the updated portfolio
Snapshot(pf, bUnits, bench, monthEndDate) ==
    LET n == Len(pf)
        totalBenchmarkVal == IF Len(bench) > 0
                             THEN ValueAt(bUnits, bench, monthEndDate) ELSE 0
    IN  [month |-> MonthLabel(monthEndDate),
         directValue |-> Round(SumSeq([k \in 1..n |-> ValD(pf[k], monthEndDate)])),
         regularValue |-> Round(SumSeq([k \in 1..n |-> ValR(pf[k], monthEndDate)])),
         actualValue |->
             Round(SumSeq([k \in 1..n |-> ActualVal(pf[k], monthEndDate)])),
         counterpartValue |->
             Round(SumSeq([k \in 1..n |-> CounterpartVal(pf[k], monthEndDate)])),
         investedAmount |->
             Round(UnitScale * SumSeq([k \in 1..n |-> pf[k].totalInvested])),
         benchmarkValue |-> IF Len(bench) > 0
                            THEN Defined(Round(totalBenchmarkVal))
                            ELSE Undefined]

BacktestIdle ==
    /\ cursorDate = [y |-> 0, m |-> 0, d |-> 1]
    /\ portfolio = <<>>
    /\ benchmarkUnits = 0
    /\ dataPoints = <<>>
    /\ iterLog = <<>>
    /\ postLog = <<>>

\* entry of generateBacktestData up to the loop
BacktestStart ==
    /\ pc = "start"
    /\ LET active == SelectSeq(investments, HasData) IN
       IF Len(investments) = 0 \/ Len(active) = 0
       THEN /\ pc' = "charted"
            /\ UNCHANGED <<cursorDate, portfolio, postLog>>
       ELSE /\ pc' = "loop"
            /\ cursorDate' = MinStartMonth(active)
            /\ portfolio' = [k \in 1..Len(active) |-> PortfolioEntry(active[k])]
            /\ postLog' = [k \in 1..Len(active) |-> <<>>]
    /\ UNCHANGED <<today, investments, benchmarkHistory, benchmarkUnits,
                   dataPoints, iterLog, simResults, navArgs, navResult>>
    /\ UNCHANGED metricVars
    /\ UNCHANGED uiVars

\* one iteration of while (cursorDate <= now)
BacktestMonth ==
    /\ pc = "loop"
    /\ getTime(cursorDate) <= getTime(today)
    /\ LET year == cursorDate.y
           month == cursorDate.m
           n == Len(portfolio)
           monthEndDate == MonthEndDate(year, month, today)
           pf == [k \in 1..n |-> PostMonth(portfolio[k], year, month, today)]
           bUnits == benchmarkUnits +
                     SumSeq([k \in 1..n |->
                        BenchmarkBought(portfolio[k], year, month, today,
                                        benchmarkHistory)])
           point == Snapshot(pf, bUnits, benchmarkHistory, monthEndDate)
           totalInvested == SumSeq([k \in 1..n |-> pf[k].totalInvested])
       IN  /\ portfolio' = pf
           /\ benchmarkUnits' = bUnits
           /\ dataPoints' = IF EmitsSnapshot(totalInvested)
                            THEN Append(dataPoints, point) ELSE dataPoints
           /\ cursorDate' = NewDate(year, month + 1, 1)
           /\ iterLog' = Append(iterLog,
                  [year |-> year, month |-> month,
                   monthEndDate |-> monthEndDate,
                   totalInvested |-> totalInvested,
                   points |-> Len(dataPoints')])
           /\ postLog' = [k \in 1..n |->
                  LET p == PaymentDate(portfolio[k], year, month, today)
                  IN  IF p.due THEN Append(postLog[k], p.date)
                      ELSE postLog[k]]
    /\ pc' = "loop"
    /\ UNCHANGED <<today, investments, benchmarkHistory, simResults,
                   navArgs, navResult>>
    /\ UNCHANGED metricVars
    /\ UNCHANGED uiVars

\* the loop ends: return dataPoints
BacktestReturn ==
    /\ pc = "loop"
    /\ getTime(cursorDate) > getTime(today)
    /\ pc' = "charted"
    /\ UNCHANGED <<today, investments, benchmarkHistory, cursorDate,
                   portfolio, benchmarkUnits, dataPoints, iterLog, postLog,
                   simResults, navArgs, navResult>>
    /\ UNCHANGED metricVars
    /\ UNCHANGED uiVars

\* investments.forEach of calculatePortfolioStats: the strict simulation of
\* every investment on its own series
SimulateAll ==
    /\ pc = "charted"
    /\ simResults' = [k \in 1..Len(investments) |->
                        simulateInvestment(investments[k],
                                           investments[k].navHistory, today)]
    /\ pc' = "done"
    /\ UNCHANGED <<today, investments, benchmarkHistory, cursorDate,
                   portfolio, benchmarkUnits, dataPoints, iterLog, postLog,
                   navArgs, navResult>>
    /\ UNCHANGED metricVars
    /\ UNCHANGED uiVars

\* a call of getNAV
Lookup ==
    /\ pc = "lookup"
    /\ navResult' = getNAV(navArgs.history, navArgs.targetDate, navArgs.mode)
    /\ pc' = "looked"
    /\ UNCHANGED <<today, investments, benchmarkHistory, cursorDate,
                   portfolio, benchmarkUnits, dataPoints, iterLog, postLog,
                   simResults, navArgs>>
    /\ UNCHANGED metricVars
    /\ UNCHANGED uiVars

(***************************************************************************)
(* calculateXIRR                                                           *)
(*                                                                         *)
(* Rates are carried in thousandths and money in hundredths, every         *)
(* quotient rounded down; Math.pow(1 + r, years) is carried for whole      *)
(* years (flows a multiple of 365 days apart).  A number is finite up to   *)
(* MaxRate.                                                                *)
(***************************************************************************)
RateScale == 10 * 10 * 10
MoneyScale == 10 * 10
MaxRate == RateScale * RateScale

\* for (let i = 0; i < 50; i++)
MaxIterations == 50

Abs(x) == IF x < 0 THEN 0 - x ELSE x

\* a * b / c for c > 0
MulDiv(a, b, c) == (a \div c) * b + ((a % c) * b) \div c

\* n * RateScale / d for d > 0, digit by digit
RECURSIVE ScaleDiv(_, _, _)
ScaleDiv(n, d, scale) ==
    IF scale = 1 THEN n \div d
    ELSE (n \div d) * scale + ScaleDiv((n % d) * 10, d, scale \div 10)

\* let rate = 0.1
InitialGuess == RateScale \div 10

\* const r = Math.max(rate, -0.99)
ClampRate(rate) ==
    LET floor == 0 - (99 * RateScale) \div 100
    IN  IF rate > floor THEN rate ELSE floor

\* amount / Math.pow(1 + r, years)
RECURSIVE Discounted(_, _, _)
Discounted(amount, years, r) ==
    IF years = 0 THEN amount * MoneyScale
    ELSE MulDiv(Discounted(amount, years - 1, r), RateScale, RateScale + r)

\* years of a flow since flows[0]: days / 365
YearsSince(flows, k) ==
    (DayNumber(flows[k].date) - DayNumber(flows[1].date)) \div 365

\* fValue after the inner loop
fValue(flows, rate) ==
    SumSeq([k \in 1..Len(flows) |->
              Discounted(flows[k].amount, YearsSince(flows, k), ClampRate(rate))])

\* fDerivative after the inner loop
fDerivative(flows, rate) ==
    0 - SumSeq([k \in 1..Len(flows) |->
                  LET r == ClampRate(rate)
                      years == YearsSince(flows, k)
                  IN  MulDiv(years * Discounted(flows[k].amount, years, r),
                             RateScale, RateScale + r)])

\* mutant: the stopping condition is never met
Settled_Never(flows, rate) == FALSE

\* Math.abs(fValue) < 1
Settled(flows, rate) == Abs(fValue(flows, rate)) < MoneyScale

\* rate - fValue / fDerivative: finite or not, and its value
NewtonStep(flows, rate) ==
    LET f == fValue(flows, rate)
        fd == fDerivative(flows, rate)
        n == IF fd > 0 THEN f ELSE 0 - f
        d == Abs(fd)
    IN  IF fd = 0 THEN [finite |-> FALSE, rate |-> 0]
        ELSE IF Abs(n) \div d > 2 * (MaxRate \div RateScale)
             THEN [finite |-> FALSE, rate |-> 0]
        ELSE LET newRate == rate - ScaleDiv(n, d, RateScale)
             IN  IF Abs(newRate) > MaxRate THEN [finite |-> FALSE, rate |-> 0]
                 ELSE [finite |-> TRUE, rate |-> newRate]

XirrIdle == [transactions |-> <<>>, currentValue |-> 0,
             valuationDate |-> [y |-> 0, m |-> 0, d |-> 1],
             flows |-> <<>>, i |-> 0, rate |-> 0, settled |-> FALSE,
             result |-> 0]

\* entry of calculateXIRR up to the loop
XirrStart ==
    /\ pc = "xirr"
    /\ LET flows == Append(xirr.transactions,
                           [date |-> xirr.valuationDate,
                            amount |-> xirr.currentValue])
       IN  IF Len(flows) < 2
           THEN /\ xirr' = [xirr EXCEPT !.flows = flows, !.result = 0]
                /\ pc' = "returned"
           ELSE /\ xirr' = [xirr EXCEPT !.flows = flows,
                                        !.rate = InitialGuess, !.i = 0]
                /\ pc' = "newton"
    /\ UNCHANGED engineVars
    /\ UNCHANGED <<stats, ratios, callArgs, callResult>>
    /\ UNCHANGED uiVars

\* one iteration of the for loop; the break leaves the loop and returns
XirrIterate ==
    /\ pc = "newton"
    /\ xirr.i < MaxIterations
    /\ IF Settled(xirr.flows, xirr.rate)
       THEN /\ xirr' = [xirr EXCEPT !.settled = TRUE,
                                    !.result = xirr.rate * 100]
            /\ pc' = "returned"
       ELSE LET step == NewtonStep(xirr.flows, xirr.rate) IN
            IF ~step.finite
            THEN /\ xirr' = [xirr EXCEPT !.result = 0]
                 /\ pc' = "returned"
            ELSE /\ xirr' = [xirr EXCEPT !.rate = step.rate, !.i = @ + 1]
                 /\ pc' = "newton"
    /\ UNCHANGED engineVars
    /\ UNCHANGED <<stats, ratios, callArgs, callResult>>
    /\ UNCHANGED uiVars

\* the loop ran out: return rate * 100
XirrExhausted ==
    /\ pc = "newton"
    /\ xirr.i = MaxIterations
    /\ xirr' = [xirr EXCEPT !.result = xirr.rate * 100]
    /\ pc' = "returned"
    /\ UNCHANGED engineVars
    /\ UNCHANGED <<stats, ratios, callArgs, callResult>>
    /\ UNCHANGED uiVars

(***************************************************************************)
(* calculateMaxDrawdown, calculateBeta                                     *)
(*                                                                         *)
(* Quotients are exact fractions [num, den]; den = 0 is NaN (0 / 0).       *)
(***************************************************************************)
Frac(n, d) == [num |-> n, den |-> d]

\* a > b on fractions with den >= 0; false when either side is NaN
FracGreater(a, b) ==
    a.den # 0 /\ b.den # 0 /\ a.num * b.den > b.num * a.den

\* mutant: the peak stays at the first value
RECURSIVE DrawdownLoop_FirstPeak(_, _, _, _)
DrawdownLoop_FirstPeak(values, k, maxPeak, maxDrawdown) ==
    IF k > Len(values) THEN maxDrawdown
    ELSE LET drawdown == Frac(maxPeak - values[k], maxPeak)
         IN  DrawdownLoop_FirstPeak(values, k + 1, maxPeak,
                                    IF FracGreater(drawdown, maxDrawdown)
                                    THEN drawdown ELSE maxDrawdown)

\* for (const v of values) { ... }
RECURSIVE DrawdownLoop(_, _, _, _)
DrawdownLoop(values, k, maxPeak, maxDrawdown) ==
    IF k > Len(values) THEN maxDrawdown
    ELSE LET v == values[k]
             peak == IF v > maxPeak THEN v ELSE maxPeak
             drawdown == Frac(peak - v, peak)
         IN  DrawdownLoop(values, k + 1, peak,
                          IF FracGreater(drawdown, maxDrawdown)
                          THEN drawdown ELSE maxDrawdown)

\* the result is maxDrawdown * 100, a percentage
calculateMaxDrawdown(values) ==
    IF Len(values) = 0 THEN Frac(0, 1)
    ELSE LET m == DrawdownLoop(values, 1, values[1], Frac(0, 1))
         IN  Frac(100 * m.num, m.den)

\* if (commonDates.length < 30) return 1
MinCommonDates == 30

\* assetMap.has(date) / assetMap.get(date): the last entry set for the date
HasDate(history, date) == \E i \in 1..Len(history) : history[i].date = date
MapGet(history, date) ==
    LET last == CHOOSE i \in 1..Len(history) :
                    /\ history[i].date = date
                    /\ \A j \in 1..Len(history) :
                           history[j].date = date => j <= i
    IN  parseFloat(history[last].nav)

\* benchmarkHistory.find(h => h.date === date).nav
FindNav(history, date) ==
    LET first == CHOOSE i \in 1..Len(history) :
                    /\ history[i].date = date
                    /\ \A j \in 1..Len(history) :
                           history[j].date = date => i <= j
    IN  parseFloat(history[first].nav)

Reverse(q) == [i \in 1..Len(q) |-> q[Len(q) + 1 - i]]

\* benchmarkHistory.filter(...).map(h => h.date).reverse()
CommonDates(assetHistory, benchHistory, startDate) ==
    LET keep(h) == /\ getTime(parseAPIDate(h.date)) >= getTime(startDate)
                   /\ HasDate(assetHistory, h.date)
        kept == SelectSeq(benchHistory, keep)
    IN  Reverse([i \in 1..Len(kept) |-> kept[i].date])

\* (curr - prev) / prev as a fraction over UnitScale
Return(curr, prev) == ((curr - prev) * UnitScale) \div prev

\* mutant: no minimum number of common dates
calculateBeta_NoMinimum(assetHistory, benchHistory, startDate) ==
    LET commonDates == CommonDates(assetHistory, benchHistory, startDate)
        n == Len(commonDates) - 1
        assetReturns == [i \in 1..n |->
            Return(MapGet(assetHistory, commonDates[i + 1]),
                   MapGet(assetHistory, commonDates[i]))]
        benchReturns == [i \in 1..n |->
            Return(FindNav(benchHistory, commonDates[i + 1]),
                   FindNav(benchHistory, commonDates[i]))]
        devAsset == [i \in 1..n |-> n * assetReturns[i] - SumSeq(assetReturns)]
        devBench == [i \in 1..n |-> n * benchReturns[i] - SumSeq(benchReturns)]
        covariance == SumSeq([i \in 1..n |-> devAsset[i] * devBench[i]])
        varianceBench == SumSeq([i \in 1..n |-> devBench[i] * devBench[i]])
    IN  IF varianceBench = 0 THEN Frac(1, 1)
        ELSE Frac(covariance, varianceBench)

calculateBeta(assetHistory, benchHistory, startDate) ==
    LET commonDates == CommonDates(assetHistory, benchHistory, startDate)
        n == Len(commonDates) - 1
        assetReturns == [i \in 1..n |->
            Return(MapGet(assetHistory, commonDates[i + 1]),
                   MapGet(assetHistory, commonDates[i]))]
        benchReturns == [i \in 1..n |->
            Return(FindNav(benchHistory, commonDates[i + 1]),
                   FindNav(benchHistory, commonDates[i]))]
        \* n * (return - mean)
        devAsset == [i \in 1..n |-> n * assetReturns[i] - SumSeq(assetReturns)]
        devBench == [i \in 1..n |-> n * benchReturns[i] - SumSeq(benchReturns)]
        covariance == SumSeq([i \in 1..n |-> devAsset[i] * devBench[i]])
        varianceBench == SumSeq([i \in 1..n |-> devBench[i] * devBench[i]])
    IN  IF Len(commonDates) < MinCommonDates THEN Frac(1, 1)
        ELSE IF varianceBench = 0 THEN Frac(1, 1)
        ELSE Frac(covariance, varianceBench)

NoHelperCall == [fn |-> "none", values |-> <<>>, assetHistory |-> <<>>,
                 benchmarkHistory |-> <<>>,
                 startDate |-> [y |-> 0, m |-> 0, d |-> 0], dateStr |-> <<>>]

\* a call of calculateMaxDrawdown
CallMaxDrawdown ==
    /\ pc = "call"
    /\ callArgs.fn = "calculateMaxDrawdown"
    /\ callResult' = calculateMaxDrawdown(callArgs.values)
    /\ pc' = "called"
    /\ UNCHANGED engineVars
    /\ UNCHANGED <<stats, ratios, xirr, callArgs>>
    /\ UNCHANGED uiVars

\* a call of calculateBeta
CallBeta ==
    /\ pc = "call"
    /\ callArgs.fn = "calculateBeta"
    /\ callResult' = calculateBeta(callArgs.assetHistory,
                                   callArgs.benchmarkHistory,
                                   callArgs.startDate)
    /\ pc' = "called"
    /\ UNCHANGED engineVars
    /\ UNCHANGED <<stats, ratios, xirr, callArgs>>
    /\ UNCHANGED uiVars

\* a call of parseAPIDate
CallParseAPIDate ==
    /\ pc = "call"
    /\ callArgs.fn = "parseAPIDate"
    /\ callResult' = parseAPIDate(callArgs.dateStr)
    /\ pc' = "called"
    /\ UNCHANGED engineVars
    /\ UNCHANGED <<stats, ratios, xirr, callArgs>>
    /\ UNCHANGED uiVars

\* a call of parseISODate
CallParseISODate ==
    /\ pc = "call"
    /\ callArgs.fn = "parseISODate"
    /\ callResult' = parseISODate(callArgs.dateStr)
    /\ pc' = "called"
    /\ UNCHANGED engineVars
    /\ UNCHANGED <<stats, ratios, xirr, callArgs>>
    /\ UNCHANGED uiVars

(***************************************************************************)
(* calculatePortfolioStats, calculateFundRatios                            *)
(*                                                                         *)
(* Values are fractions over UnitScale.  The results of calculateXIRR and  *)
(* calculateVolatility on calendar dates, and what is derived from them    *)
(* (yearlyImpact, absoluteReturn, romad, the value of Jensen's formula),   *)
(* are not carried: an alpha or beta that the formulas computed is the     *)
(* record Computed.                                                        *)
(***************************************************************************)
\* the optional parameter benchmarkHistory?: NAVData[]
Given(history) == [given |-> TRUE, history |-> history]
NotGiven == [given |-> FALSE, history |-> <<>>]

\* a number that came out of the covariance / Jensen formulas
Computed == [defined |-> TRUE, formula |-> TRUE]

\* chartData.length > 6
MinSnapshots == 6

\* mutant: an investment without counterpart series adds nothing
CounterpartValue_Omitted(inv, stat, now) ==
    IF Len(inv.counterpartNavHistory) > 0
    THEN simulateInvestment(inv, inv.counterpartNavHistory, now).currentValue
    ELSE 0

\* what one investment adds to counterpartValue: the current value of its
\* counterpart simulation, or of its own when it has no counterpart series
CounterpartValue(inv, stat, now) ==
    IF Len(inv.counterpartNavHistory) > 0
    THEN simulateInvestment(inv, inv.counterpartNavHistory, now).currentValue
    ELSE stat.currentValue

\* the months of chartData from which a pair of returns is pushed
ReturnMonths(chartData) ==
    { i \in 2..Len(chartData) :
        /\ chartData[i - 1].actualValue > 0
        /\ chartData[i - 1].benchmarkValue.defined
        /\ chartData[i].benchmarkValue.defined }

\* let alpha = 0; let beta = 0; if (...) { ... alpha = ...; beta = ... }
PortfolioAlphaBeta(chartData, benchmark) ==
    IF /\ benchmark.given
       /\ Len(benchmark.history) > 0
       /\ Len(chartData) > MinSnapshots
       /\ ReturnMonths(chartData) # {}
    THEN Computed ELSE Defined(0)

calculatePortfolioStats(invs, chartData, benchmark, now) ==
    LET n == Len(invs)
        actual == [k \in 1..n |->
                     simulateInvestment(invs[k], invs[k].navHistory, now)]
        actualValue == SumSeq([k \in 1..n |-> actual[k].currentValue])
        counterpartValue ==
            SumSeq([k \in 1..n |-> CounterpartValue(invs[k], actual[k], now)])
        number == PortfolioAlphaBeta(chartData, benchmark)
    IN  [totalInvested |-> SumSeq([k \in 1..n |-> actual[k].totalInvested]),
         currentValue |-> actualValue,
         regularValue |-> 0,
         actualValue |-> actualValue,
         counterpartValue |-> counterpartValue,
         netImpact |-> actualValue - counterpartValue,
         maxDrawdown |->
             calculateMaxDrawdown([i \in 1..Len(chartData) |->
                                      chartData[i].actualValue]),
         alpha |-> IF benchmark.given THEN number ELSE Undefined,
         beta |-> IF benchmark.given THEN number ELSE Undefined]

\* one entry of funds (null for an investment without history)
FundRatio(inv, benchHistory, now) ==
    LET stat == simulateInvestment(inv, inv.navHistory, now)
        startDate == parseISODate(inv.startDate)
        hasBenchmark == Len(benchHistory) > 0
        bStartNav == getNAV(benchHistory, startDate, "PURCHASE")
    IN  [id |-> inv.id,
         invested |-> stat.totalInvested,
         currentValue |-> stat.currentValue,
         beta |-> IF hasBenchmark
                  THEN calculateBeta(inv.navHistory, benchHistory, startDate)
                  ELSE Frac(0, 1),
         alpha |-> IF hasBenchmark /\ Truthy(bStartNav)
                   THEN Computed ELSE Defined(0)]

RECURSIVE ProdSeq(_)
ProdSeq(q) == IF q = <<>> THEN 1 ELSE Head(q) * ProdSeq(Tail(q))

\* funds.reduce((acc, f) => acc + f.beta * (f.currentValue / totalValue), 0)
WeightedBeta(funds, totalValue) ==
    IF totalValue > 0
    THEN LET n == Len(funds)
             dens == ProdSeq([k \in 1..n |-> funds[k].beta.den])
         IN  Frac(SumSeq([k \in 1..n |->
                     funds[k].beta.num * funds[k].currentValue
                        * (dens \div funds[k].beta.den)]),
                  totalValue * dens)
    ELSE Frac(0, 1)

\* the same sum over f.alpha
WeightedAlpha(funds, totalValue) ==
    IF totalValue > 0 /\ \E k \in 1..Len(funds) : funds[k].alpha = Computed
    THEN Computed ELSE Defined(0)

HasHistory(inv) == Len(inv.navHistory) > 0

\* the portfolio entry computed from the finished funds array
PortfolioRatio(funds) ==
    LET totalValue == SumSeq([k \in 1..Len(funds) |-> funds[k].currentValue])
    IN  [invested |-> SumSeq([k \in 1..Len(funds) |-> funds[k].invested]),
         currentValue |-> totalValue,
         beta |-> WeightedBeta(funds, totalValue),
         alpha |-> WeightedAlpha(funds, totalValue)]

\* const funds = investments.map(...).filter(f => f !== null): the array is
\* built once and the totals are reduced from it
calculateFundRatios(invs, benchHistory, now) ==
    LET held == SelectSeq(invs, HasHistory)
        built == [k \in 1..Len(held) |-> FundRatio(held[k], benchHistory, now)]
    IN  CHOOSE r \in { [funds |-> funds, portfolio |-> PortfolioRatio(funds)] :
                         funds \in {built} } : TRUE

NoStats == [totalInvested |-> 0]
NoRatios == [funds |-> <<>>]

MetricsIdle ==
    /\ stats = NoStats
    /\ ratios = NoRatios
    /\ xirr = XirrIdle
    /\ callArgs = NoHelperCall
    /\ callResult = 0

\* App: stats = calculatePortfolioStats(activeInvestments, chartData,
\* benchmarkHistory)
PortfolioStats ==
    /\ pc = "done"
    /\ stats' = calculatePortfolioStats(investments, dataPoints,
                                        Given(benchmarkHistory), today)
    /\ pc' = "stats"
    /\ UNCHANGED engineVars
    /\ UNCHANGED <<ratios, xirr, callArgs, callResult>>
    /\ UNCHANGED uiVars

\* AnalysisDashboard: calculateFundRatios(investments, benchmarkHistory)
FundRatios ==
    /\ pc = "stats"
    /\ ratios' = calculateFundRatios(investments, benchmarkHistory, today)
    /\ pc' = "analysed"
    /\ UNCHANGED engineVars
    /\ UNCHANGED <<stats, xirr, callArgs, callResult>>
    /\ UNCHANGED uiVars

(***************************************************************************)
(* Inputs                                                                  *)
(***************************************************************************)
Years == {2023, 2024}

Sample(y, m, d, nav) == [date |-> APIText(y, m, d), nav |-> nav]

\* newest-first history of a Direct plan, as the API stores it
SeriesA(Y) == << Sample(Y, 2, 20, "6.0000"), Sample(Y, 1, 1, "5.0000"),
                 Sample(Y, 0, 2, "4.0000"), Sample(Y - 1, 11, 1, "3.0000") >>
\* its Regular sibling
SeriesB(Y) == << Sample(Y, 2, 20, "5.0000"), Sample(Y, 1, 1, "4.0000"),
                 Sample(Y, 0, 2, "3.0000"), Sample(Y - 1, 11, 1, "3.0000") >>
\* the same history stored oldest-first
SeriesAsc(Y) == << Sample(Y - 1, 11, 1, "3.0000"), Sample(Y, 0, 2, "4.0000"),
                   Sample(Y, 1, 1, "5.0000"), Sample(Y, 2, 20, "6.0000") >>
\* a young fund with a zero NAV on its first day
SeriesLate(Y) == << Sample(Y, 2, 20, "4.0000"), Sample(Y, 1, 1, "0.0000") >>
SeriesBench(Y) == << Sample(Y, 2, 20, "4.0000"), Sample(Y, 0, 2, "5.0000") >>

SeriesPairs(Y) == { <<SeriesA(Y), SeriesB(Y)>>, <<SeriesA(Y), <<>> >>,
                    << <<>>, SeriesB(Y)>>, <<SeriesLate(Y), SeriesAsc(Y)>>,
                    << <<>>, <<>> >> }

Todays(Y) == { NewDate(Y, 1, 10), NewDate(Y, 2, 31) }

StartDates(Y) == { ISOText(Y - 1, 11, 31), ISOText(Y, 0, 15),
                   ISOText(Y, 0, 31), ISOText(Y, 3, 20) }
EndDates(Y) == { <<>>, ISOText(Y, 0, 20) }

Investment(isDirect, type, amount, startDate, endDate, pair) ==
    [id |-> 0, isDirect |-> isDirect, type |-> type, amount |-> amount,
     startDate |-> startDate, endDate |-> endDate,
     navHistory |-> pair[1], counterpartNavHistory |-> pair[2]]

FirstInvestments(Y) ==
    { Investment(dir, type, 100, s, e, pair) :
        dir \in BOOLEAN, type \in {"SIP", "LUMPSUM"},
        s \in StartDates(Y), e \in EndDates(Y), pair \in SeriesPairs(Y) }

MoreInvestments(Y) ==
    { Investment(dir, type, 250, ISOText(Y, 1, 5), <<>>,
                 <<SeriesA(Y), SeriesB(Y)>>) :
        dir \in BOOLEAN, type \in {"SIP", "LUMPSUM"} }

\* the lists of n investments, with ids 1..n
RECURSIVE Portfolios(_, _)
Portfolios(Y, n) ==
    IF n = 1 THEN { <<[i EXCEPT !.id = 1]>> : i \in FirstInvestments(Y) }
    ELSE { Append(q, [i EXCEPT !.id = n]) :
             q \in Portfolios(Y, n - 1), i \in MoreInvestments(Y) }

(***************************************************************************)
(* App: the state of the component and its handlers                        *)
(*                                                                         *)
(* A value that may be null or undefined is Undefined or Defined(v); ids,  *)
(* scheme codes and amounts are numbers, 0 standing for the falsy values   *)
(* of their type.  An asynchronous handler is one action per stretch       *)
(* between two awaits; its calls are kept by position with their pc.  Of   *)
(* an investment the fields that the handlers read or write are carried.   *)
(***************************************************************************)
\* how many calls of handleAddInvestment, handleBenchmarkSelect (with a
\* scheme) and handleFileChange a run makes
MaxAdds == 2
MaxSelects == 2
MaxImports == 1

\* what the handlers of the investment list, those of the benchmark and the
\* search effect leave alone
calcVars == <<today, cursorDate, portfolio, benchmarkUnits, dataPoints,
              iterLog, postLog, simResults, navArgs, navResult, metricVars>>
listFrame == <<pc, calcVars, searchVars, benchmarkHistory, benchmarkScheme,
               benchmarkCalls>>
benchFrame == <<pc, calcVars, searchVars, investments, selectedInvestmentId,
                isProcessing, addCalls, fileReads>>
searchFrame == <<pc, engineVars, metricVars, appVars>>

\* JavaScript's truthiness of a number or of an absent value
ToBoolean(v) == v.defined /\ v.value # 0

\* null / undefined where an array, a text or an MFData object may stand
NoArray == [defined |-> FALSE, value |-> <<>>]
NoText == [defined |-> FALSE, value |-> ""]
NoMFData == [defined |-> FALSE, value |-> [data |-> <<>>]]

\* what the server holds for a scheme code
SchemeSeries(code) ==
    << Sample(2023, 2, 20, IF code % 2 = 1 THEN "4.0000" ELSE "5.0000"),
       Sample(2023, 1, 1, "3.0000") >>

\* the outcomes of fetch(...) and res.json(): the promise rejects, the body
\* is not JSON, or the body is a JSON value with or without a data array
Reply(kind, data) == [kind |-> kind, data |-> data]
Replies(code) ==
    { Reply("rejected", NoArray), Reply("notJSON", NoArray),
      Reply("json", NoArray), Reply("json", Defined(<<>>)),
      Reply("json", Defined(SchemeSeries(code))) }

\* getMFData: null when the fetch fails or the body has no data array
getMFData(reply) ==
    IF reply.kind # "json" THEN NoMFData
    ELSE IF ~reply.data.defined THEN NoMFData
    ELSE Defined([data |-> reply.data.value])

\* the index set of the entries of a list that satisfy a test
IdsOf(invs) == [k \in 1..Len(invs) |-> invs[k].id]
Listed(invs, id) == \E k \in 1..Len(invs) : invs[k].id = id

\* handleAddInvestment: const newInvestment = {...}
NewInvestment(id, investedScheme, counterpartScheme) ==
    [id |-> id, schemeCode |-> Defined(investedScheme),
     amount |-> Defined(100), startDate |-> ISOText(2023, 0, 15),
     endDate |-> <<>>, tags |-> Defined(<<>>), navHistory |-> <<>>,
     counterpartSchemeCode |-> counterpartScheme,
     counterpartNavHistory |-> NoArray, isLoading |-> TRUE,
     error |-> NoText]

\* mutant: the result is appended when no entry has the id
Loaded_AppendsWhenMissing(prev, id, mainData, counterpartData) ==
    IF Listed(prev, id) THEN prev
    ELSE Append(prev, [NewInvestment(id, 101, Undefined) EXCEPT
                          !.isLoading = FALSE,
                          !.navHistory = mainData.value.data])

\* setInvestments(prev => prev.map(inv => inv.id === newInvestment.id ?
\*   {...inv, isLoading: false, navHistory: ..., ...} : inv))
Loaded(prev, id, mainData, counterpartData) ==
    [k \in 1..Len(prev) |->
        IF prev[k].id = id
        THEN [prev[k] EXCEPT
                !.isLoading = FALSE,
                !.navHistory = mainData.value.data,
                !.counterpartNavHistory =
                    IF counterpartData.defined
                    THEN Defined(counterpartData.value.data)
                    ELSE Defined(<<>>),
                !.error = IF ~counterpartData.defined
                          THEN Defined("Comparison data unavailable")
                          ELSE NoText]
        ELSE prev[k]]

\* mutant: the failure is recorded and the entry keeps loading
Failed_StillLoading(prev, id) ==
    [k \in 1..Len(prev) |->
        IF prev[k].id = id
        THEN [prev[k] EXCEPT !.error = Defined("Failed to fetch data.")]
        ELSE prev[k]]

\* catch: {...inv, isLoading: false, error: "Failed to fetch data."}
Failed(prev, id) ==
    [k \in 1..Len(prev) |->
        IF prev[k].id = id
        THEN [prev[k] EXCEPT !.isLoading = FALSE,
                             !.error = Defined("Failed to fetch data.")]
        ELSE prev[k]]

\* the arguments the forms pass to onAdd: a scheme with or without its
\* counterpart
AddArgs == { [invested |-> 101, counterpart |-> Undefined],
             [invested |-> 101, counterpart |-> Defined(102)] }

\* a call of handleAddInvestment: its newInvestment.id, its schemes, where
\* it stands and its locals mainData and counterpartData; listed is
\* history: whether an entry with its id was in the list when it finished
AddCall(id, args) ==
    [id |-> id, invested |-> args.invested, counterpart |-> args.counterpart,
     pc |-> "main", mainData |-> NoMFData, counterpartData |-> NoMFData,
     listed |-> TRUE]

\* handleAddInvestment up to its first await; uuidv4() gives a fresh id
AddInvestment ==
    /\ pc = "app"
    /\ Len(addCalls) < MaxAdds
    /\ \E args \in AddArgs :
        LET id == Defined(Len(addCalls) + 1) IN
        /\ investments' =
              Append(investments,
                     NewInvestment(id, args.invested, args.counterpart))
        /\ addCalls' = Append(addCalls, AddCall(id, args))
    /\ isProcessing' = TRUE
    /\ UNCHANGED <<selectedInvestmentId, fileReads>>
    /\ UNCHANGED listFrame

\* the call finishes: finally { setIsProcessing(false) }
Finish(c, invs, mainData, counterpartData) ==
    /\ investments' = invs
    /\ addCalls' = [addCalls EXCEPT
                      ![c].pc = "done",
                      ![c].mainData = mainData,
                      ![c].counterpartData = counterpartData,
                      ![c].listed = Listed(investments, addCalls[c].id)]
    /\ isProcessing' = FALSE

\* await getMFData(investedScheme.schemeCode) settles
AddMainSettles ==
    /\ pc = "app"
    /\ \E c \in 1..Len(addCalls) :
        /\ addCalls[c].pc = "main"
        /\ \E reply \in Replies(addCalls[c].invested) :
            LET mainData == getMFData(reply) IN
            IF ~mainData.defined
            THEN Finish(c, Failed(investments, addCalls[c].id),
                        NoMFData, NoMFData)
            ELSE IF addCalls[c].counterpart.defined
            THEN /\ addCalls' = [addCalls EXCEPT ![c].pc = "counterpart",
                                                 ![c].mainData = mainData]
                 /\ UNCHANGED <<investments, isProcessing>>
            ELSE Finish(c, Loaded(investments, addCalls[c].id, mainData,
                                  NoMFData),
                        mainData, NoMFData)
    /\ UNCHANGED <<selectedInvestmentId, fileReads>>
    /\ UNCHANGED listFrame

\* await getMFData(counterpartScheme.schemeCode) settles
AddCounterpartSettles ==
    /\ pc = "app"
    /\ \E c \in 1..Len(addCalls) :
        /\ addCalls[c].pc = "counterpart"
        /\ \E reply \in Replies(addCalls[c].counterpart.value) :
            Finish(c, Loaded(investments, addCalls[c].id,
                             addCalls[c].mainData, getMFData(reply)),
                   addCalls[c].mainData, getMFData(reply))
    /\ UNCHANGED <<selectedInvestmentId, fileReads>>
    /\ UNCHANGED listFrame

\* removeInvestment(id), from a row of the list
removeInvestment ==
    /\ pc = "app"
    /\ \E k \in 1..Len(investments) :
        LET id == investments[k].id
            keep(inv) == inv.id # id
        IN  /\ investments' = SelectSeq(investments, keep)
            /\ selectedInvestmentId' =
                  IF selectedInvestmentId = id THEN Undefined
                  ELSE selectedInvestmentId
    /\ UNCHANGED <<isProcessing, addCalls, fileReads>>
    /\ UNCHANGED listFrame

\* the values the edit form saves
Edits == { [amount |-> Defined(250), startDate |-> ISOText(2023, 1, 5),
            endDate |-> ISOText(2023, 2, 5), tags |-> Defined(<<"core">>)] }

\* updateInvestment(id, amount, startDate, endDate, tags)
updateInvestment ==
    /\ pc = "app"
    /\ \E k \in 1..Len(investments), e \in Edits :
        investments' =
            [j \in 1..Len(investments) |->
                IF investments[j].id = investments[k].id
                THEN [investments[j] EXCEPT !.amount = e.amount,
                                            !.startDate = e.startDate,
                                            !.endDate = e.endDate,
                                            !.tags = e.tags]
                ELSE investments[j]]
    /\ UNCHANGED <<selectedInvestmentId, isProcessing, addCalls, fileReads>>
    /\ UNCHANGED listFrame

\* toggleSelection(id), from a row of the list
toggleSelection ==
    /\ pc = "app"
    /\ \E k \in 1..Len(investments) :
        selectedInvestmentId' =
            IF selectedInvestmentId = investments[k].id THEN Undefined
            ELSE investments[k].id
    /\ UNCHANGED <<investments, isProcessing, addCalls, fileReads>>
    /\ UNCHANGED listFrame

\* activeInvestments (no tag filter is set)
activeInvestments ==
    IF ToBoolean(selectedInvestmentId)
    THEN LET chosen(inv) == inv.id = selectedInvestmentId
         IN  SelectSeq(investments, chosen)
    ELSE investments

\* an investment as an exported file holds it
FileItem(id, amount, tags, isLoading) ==
    [id |-> id, schemeCode |-> Defined(101), amount |-> amount,
     startDate |-> ISOText(2023, 0, 15), endDate |-> <<>>, tags |-> tags,
     navHistory |-> IF isLoading THEN <<>> ELSE SchemeSeries(101),
     counterpartSchemeCode |-> Undefined,
     counterpartNavHistory |-> IF isLoading THEN NoArray ELSE Defined(<<>>),
     isLoading |-> isLoading,
     error |-> IF isLoading THEN NoText
               ELSE Defined("Comparison data unavailable")]

\* the text of a file: not JSON, a JSON value that is no array, or an array
\* of items (NoItem is the item null)
NoItem == [defined |-> FALSE,
           value |-> FileItem(Undefined, Undefined, NoArray, TRUE)]
FileText(kind, items) == [kind |-> kind, items |-> items]
Files ==
    { FileText("notJSON", <<>>), FileText("object", <<>>),
      FileText("array", <<>>),
      \* a legacy export without tags
      FileText("array", <<Defined(FileItem(Defined(7), Defined(100),
                                           NoArray, FALSE))>>),
      \* an export made while the first investment was loading
      FileText("array", <<Defined(FileItem(Defined(1), Defined(100),
                                           Defined(<<"core">>), TRUE)),
                          Defined(FileItem(Defined(8), Defined(100),
                                           NoArray, FALSE))>>),
      \* items without id, with amount 0, a null item
      FileText("array", <<Defined(FileItem(Undefined, Defined(100),
                                           Defined(<<>>), FALSE))>>),
      FileText("array", <<Defined(FileItem(Defined(7), Defined(100),
                                           NoArray, FALSE)),
                          Defined(FileItem(Defined(8), Defined(0),
                                           NoArray, FALSE))>>),
      FileText("array", <<Defined(FileItem(Defined(7), Defined(100),
                                           NoArray, FALSE)),
                          NoItem>>) }

\* parsedData.every(item => item.id && item.schemeCode && item.amount):
\* "throws" when the scan reaches a null item
RECURSIVE Every(_, _)
Every(items, k) ==
    IF k > Len(items) THEN "true"
    ELSE IF ~items[k].defined THEN "throws"
    ELSE IF /\ ToBoolean(items[k].value.id)
            /\ ToBoolean(items[k].value.schemeCode)
            /\ ToBoolean(items[k].value.amount)
         THEN Every(items, k + 1)
    ELSE "false"

\* the items as parsed, tags left as the file has them
Sanitized_KeepsTags(items) ==
    [k \in 1..Len(items) |-> items[k].value]

\* parsedData.map(i => ({ ...i, tags: i.tags || [] }))
Sanitized(items) ==
    [k \in 1..Len(items) |->
        [items[k].value EXCEPT
            !.tags = IF items[k].value.tags.defined
                     THEN items[k].value.tags ELSE Defined(<<>>)]]

\* handleFileChange: a file was chosen and reader.readAsText(file) begins
handleFileChange ==
    /\ pc = "app"
    /\ Len(fileReads) < MaxImports
    /\ \E text \in Files :
        fileReads' = Append(fileReads, [content |-> text, pc |-> "reading"])
    /\ UNCHANGED <<investments, selectedInvestmentId, isProcessing, addCalls>>
    /\ UNCHANGED listFrame

\* reader.onload
ReaderOnload ==
    /\ pc = "app"
    /\ \E r \in 1..Len(fileReads) :
        /\ fileReads[r].pc = "reading"
        /\ LET content == fileReads[r].content IN
           investments' =
               IF /\ content.kind = "array"
                  /\ Every(content.items, 1) = "true"
               THEN Sanitized(content.items)
               ELSE investments
        /\ fileReads' = [fileReads EXCEPT ![r].pc = "done"]
    /\ UNCHANGED <<selectedInvestmentId, isProcessing, addCalls>>
    /\ UNCHANGED listFrame

\* the schemes the benchmark selector offers
BenchmarkSchemes == {201, 202}

\* handleBenchmarkSelect(scheme) up to its await
BenchmarkSelect ==
    /\ pc = "app"
    /\ Len(benchmarkCalls) < MaxSelects
    /\ \E code \in BenchmarkSchemes :
        /\ benchmarkScheme' = Defined(code)
        /\ benchmarkCalls' =
              Append(benchmarkCalls, [scheme |-> code, pc |-> "fetch"])
    /\ UNCHANGED benchmarkHistory
    /\ UNCHANGED benchFrame

\* handleBenchmarkSelect(null), from the clear button of a selected scheme
BenchmarkClear ==
    /\ pc = "app"
    /\ benchmarkScheme.defined
    /\ benchmarkScheme' = Undefined
    /\ benchmarkHistory' = <<>>
    /\ UNCHANGED benchmarkCalls
    /\ UNCHANGED benchFrame

\* await getMFData(scheme.schemeCode) settles
BenchmarkSettles ==
    /\ pc = "app"
    /\ \E c \in 1..Len(benchmarkCalls) :
        /\ benchmarkCalls[c].pc = "fetch"
        /\ \E reply \in Replies(benchmarkCalls[c].scheme) :
            LET data == getMFData(reply) IN
            benchmarkHistory' = IF data.defined THEN data.value.data
                                ELSE benchmarkHistory
        /\ benchmarkCalls' = [benchmarkCalls EXCEPT ![c].pc = "done"]
    /\ UNCHANGED benchmarkScheme
    /\ UNCHANGED benchFrame

(***************************************************************************)
(* The debounced fund search of BenchmarkSelector and AddInvestmentForm    *)
(*                                                                         *)
(* A query is the sequence of its characters.  An edit re-renders the      *)
(* component: the cleanup that the previous run of the effect returned     *)
(* runs, then the effect.                                                  *)
(***************************************************************************)
\* how many timers a run sets
MaxTimers == 2

Components == {"BenchmarkSelector", "AddInvestmentForm"}

\* data.slice(0, 15) / data.slice(0, 10)
ResultLimit(comp) == IF comp = "BenchmarkSelector" THEN 15 ELSE 10

\* query.length < 3
MinQueryLength == 3

Queries == { <<>>, <<"n", "i">>, <<"n", "i", "f">>, <<"n", "i", "f", "t">> }

\* the schemes a search finds
SearchHits(n) == [k \in 1..n |-> k]
SearchReplies ==
    { Reply("rejected", NoArray), Reply("notJSON", NoArray),
      Reply("json", NoArray), Reply("json", Defined(SearchHits(0))),
      Reply("json", Defined(SearchHits(12))), Reply("json", Defined(SearchHits(20))) }

\* searchMF: [] when the fetch fails or the body is no array
searchMF(reply) ==
    IF reply.kind = "json" /\ reply.data.defined THEN reply.data.value
    ELSE <<>>

Slice(data, limit) == SubSeq(data, 1, Min(Len(data), limit))

\* if (searchTimeout.current) clearTimeout(searchTimeout.current)
ClearCurrent(ts) ==
    IF searchTimeout # 0 /\ ts[searchTimeout].pc = "pending"
    THEN [ts EXCEPT ![searchTimeout].pc = "cleared"]
    ELSE ts

\* the effect returned its cleanup when it ran for this query
HasCleanup(q) == Len(q) >= MinQueryLength

\* setQuery(q): the cleanup of the previous run, then the effect
SetQuery ==
    /\ pc = "search"
    /\ \E q \in Queries \ {query} :
        /\ query' = q
        /\ LET cleaned == IF HasCleanup(query) THEN ClearCurrent(timers)
                          ELSE timers
           IN  IF Len(q) < MinQueryLength
               THEN /\ results' = <<>>
                    /\ timers' = cleaned
                    /\ UNCHANGED <<isSearching, searchTimeout>>
               ELSE /\ Len(timers) < MaxTimers
                    /\ isSearching' = TRUE
                    /\ timers' = Append(ClearCurrent(cleaned),
                                        [query |-> q, pc |-> "pending"])
                    /\ searchTimeout' = Len(timers) + 1
                    /\ UNCHANGED results
    /\ UNCHANGED component
    /\ UNCHANGED searchFrame

\* 500 ms passed: the callback calls searchMF(query) and awaits it
TimerFires ==
    /\ pc = "search"
    /\ \E t \in 1..Len(timers) :
        /\ timers[t].pc = "pending"
        /\ timers' = [timers EXCEPT ![t].pc = "searching"]
    /\ UNCHANGED <<component, query, results, isSearching, searchTimeout>>
    /\ UNCHANGED searchFrame

\* await searchMF(query) settles
SearchSettles ==
    /\ pc = "search"
    /\ \E t \in 1..Len(timers), reply \in SearchReplies :
        /\ timers[t].pc = "searching"
        /\ results' = Slice(searchMF(reply), ResultLimit(component))
        /\ timers' = [timers EXCEPT ![t].pc = "done"]
    /\ isSearching' = FALSE
    /\ UNCHANGED <<component, query, searchTimeout>>
    /\ UNCHANGED searchFrame

\* the App and the search before anything happened
AppIdle ==
    /\ selectedInvestmentId = Undefined
    /\ isProcessing = FALSE
    /\ benchmarkScheme = Undefined
    /\ addCalls = <<>>
    /\ benchmarkCalls = <<>>
    /\ fileReads = <<>>
SearchIdle ==
    /\ component = "BenchmarkSelector"
    /\ query = <<>>
    /\ results = <<>>
    /\ isSearching = FALSE
    /\ searchTimeout = 0
    /\ timers = <<>>
UiIdle == AppIdle /\ SearchIdle

NoCall == [history |-> <<>>, targetDate |-> [y |-> 0, m |-> 0, d |-> 1],
           mode |-> "PURCHASE"]

Init ==
    /\ \E Y \in Years :
        /\ today \in Todays(Y)
        /\ investments \in UNION { Portfolios(Y, n) : n \in 1..MaxInvestments }
        /\ benchmarkHistory \in { <<>>, SeriesBench(Y) }
    /\ pc = "start"
    /\ BacktestIdle
    /\ simResults = <<>>
    /\ navArgs = NoCall
    /\ navResult = NotFound
    /\ MetricsIdle
    /\ UiIdle

Next ==
    \/ BacktestStart
    \/ BacktestMonth
    \/ BacktestReturn
    \/ SimulateAll
    \/ PortfolioStats
    \/ FundRatios

Spec == Init /\ [][Next]_vars

(***************************************************************************)
(* getNAV on its own: every series of at most MaxSamples samples with      *)
(* distinct dates, in every storage order                                  *)
(***************************************************************************)
LookupSampleDates == { APIText(2023, 11, 10), APIText(2024, 0, 10),
                       APIText(2024, 1, 10), APIText(2024, 2, 10) }
LookupNavs == {"3.0000", "4.0000", "5.0000"}
LookupTargets == { NewDate(2023, 11, 1), NewDate(2023, 11, 10),
                   NewDate(2023, 11, 20), NewDate(2024, 0, 20),
                   NewDate(2024, 1, 10), NewDate(2024, 1, 20),
                   NewDate(2024, 2, 20) }

LookupSeries ==
    UNION { { h \in [1..n -> [date : LookupSampleDates, nav : LookupNavs]] :
                \A i, j \in 1..n : i # j => h[i].date # h[j].date } :
            n \in 0..MaxSamples }

InitNAV ==
    /\ navArgs \in [history : LookupSeries, targetDate : LookupTargets,
                    mode : {"PURCHASE", "VALUATION"}]
    /\ navResult = NotFound
    /\ pc = "lookup"
    /\ today = NewDate(2024, 2, 31)
    /\ investments = <<>>
    /\ benchmarkHistory = <<>>
    /\ BacktestIdle
    /\ simResults = <<>>
    /\ MetricsIdle
    /\ UiIdle

NextNAV == Lookup

SpecNAV == InitNAV /\ [][NextNAV]_vars

(***************************************************************************)
(* calculateXIRR on its own: one or two contributions of 100 and a value   *)
(* one or two years (365 and 730 days) after the first                     *)
(***************************************************************************)
XirrDay(k) == IF k = 0 THEN NewDate(2023, 0, 15)
              ELSE IF k = 1 THEN NewDate(2024, 0, 15)
              ELSE NewDate(2025, 0, 14)

Flow(date, amount) == [date |-> date, amount |-> amount]

XirrCall(transactions, currentValue, valuationDate) ==
    [XirrIdle EXCEPT !.transactions = transactions,
                     !.currentValue = currentValue,
                     !.valuationDate = valuationDate]

XirrValues == {0, 1, 50, 90, 100, 110, 121, 200, 300}

XirrCalls ==
    { XirrCall(t, v, XirrDay(1)) :
        t \in { <<>>, <<Flow(XirrDay(0), -100)>>,
                <<Flow(XirrDay(0), -100), Flow(XirrDay(0), -100)>>,
                <<Flow(XirrDay(0), -100), Flow(XirrDay(1), -100)>> },
        v \in XirrValues }
    \cup { XirrCall(<<Flow(XirrDay(0), -100)>>, v, XirrDay(2)) :
             v \in XirrValues }
    \cup { XirrCall(<<Flow(XirrDay(0), -100000)>>, v, XirrDay(1)) :
             v \in {110000} }

InitXIRR ==
    /\ xirr \in XirrCalls
    /\ pc = "xirr"
    /\ today = NewDate(2024, 2, 31)
    /\ investments = <<>>
    /\ benchmarkHistory = <<>>
    /\ BacktestIdle
    /\ simResults = <<>>
    /\ navArgs = NoCall
    /\ navResult = NotFound
    /\ stats = NoStats
    /\ ratios = NoRatios
    /\ callArgs = NoHelperCall
    /\ callResult = 0
    /\ UiIdle

NextXIRR ==
    \/ XirrStart
    \/ XirrIterate
    \/ XirrExhausted

SpecXIRR == InitXIRR /\ [][NextXIRR]_vars

(***************************************************************************)
(* The helpers on their own                                                *)
(***************************************************************************)
MaxValues == 3

HelperCall(fn, values, assetHistory, benchHistory, startDate, dateStr) ==
    [fn |-> fn, values |-> values, assetHistory |-> assetHistory,
     benchmarkHistory |-> benchHistory, startDate |-> startDate,
     dateStr |-> dateStr]

DrawdownValues == {0, 50, 100, 150}

DrawdownCalls ==
    { HelperCall("calculateMaxDrawdown", v, <<>>, <<>>, InvalidDate, <<>>) :
        v \in UNION { [1..n -> DrawdownValues] : n \in 0..MaxValues } }

\* daily samples from the 1st of December 2023, stored newest-first
BetaDay(k) == NewDate(2023, 11, 1 + k)

BetaNav(pattern, k) ==
    CASE pattern = "flat" -> "4.0000"
      [] pattern = "saw" -> IF k % 2 = 0 THEN "4.0000" ELSE "5.0000"
      [] pattern = "ramp" -> IF k % 3 = 0 THEN "5.0000" ELSE "3.0000"

BetaSeries(n, pattern) ==
    [i \in 1..n |->
        LET day == BetaDay(n - i)
        IN  Sample(day.y, day.m, day.d, BetaNav(pattern, n - i))]

BetaLengths == {MinCommonDates - 1, MinCommonDates, MinCommonDates + 1}

BetaCalls ==
    { HelperCall("calculateBeta", <<>>, BetaSeries(na, pa), BetaSeries(nb, pb),
                 BetaDay(s), <<>>) :
        na \in BetaLengths, pa \in {"saw", "ramp"},
        nb \in BetaLengths, pb \in {"flat", "saw", "ramp"}, s \in {0, 1} }

\* date texts: a date in each format, the 31st of February, month 13, day 0
\* and a text of two fields
DateTexts == { <<15, 1, 2023>>, <<2023, 1, 15>>, <<31, 2, 2023>>,
               <<2023, 2, 31>>, <<15, 13, 2023>>, <<2023, 13, 15>>,
               <<0, 1, 2023>>, <<1, 2023>>, <<2023, 1>>, <<29, 2, 2024>>,
               <<2024, 2, 29>>, <<31, 12, 2023>>, <<2023, 12, 31>> }

ParseCalls ==
    { HelperCall(fn, <<>>, <<>>, <<>>, InvalidDate, t) :
        fn \in {"parseAPIDate", "parseISODate"}, t \in DateTexts }

InitCalls ==
    /\ callArgs \in DrawdownCalls \cup BetaCalls \cup ParseCalls
    /\ callResult = 0
    /\ pc = "call"
    /\ today = NewDate(2024, 2, 31)
    /\ investments = <<>>
    /\ benchmarkHistory = <<>>
    /\ BacktestIdle
    /\ simResults = <<>>
    /\ navArgs = NoCall
    /\ navResult = NotFound
    /\ stats = NoStats
    /\ ratios = NoRatios
    /\ xirr = XirrIdle
    /\ UiIdle

NextCalls ==
    \/ CallMaxDrawdown
    \/ CallBeta
    \/ CallParseAPIDate
    \/ CallParseISODate

SpecCalls == InitCalls /\ [][NextCalls]_vars

(***************************************************************************)
(* The App on its own: the investment list, then the benchmark, then a     *)
(* fund search                                                             *)
(***************************************************************************)
\* the engine is not running
EngineIdle ==
    /\ today = NewDate(2023, 2, 31)
    /\ BacktestIdle
    /\ simResults = <<>>
    /\ navArgs = NoCall
    /\ navResult = NotFound
    /\ MetricsIdle

\* what the mount effect finds under 'mf_portfolio_v2': nothing, or a list
\* saved by an earlier session
SavedPortfolios ==
    { <<>>, <<FileItem(Defined(9), Defined(100), Defined(<<>>), FALSE)>> }

InitApp ==
    /\ pc = "app"
    /\ investments \in SavedPortfolios
    /\ benchmarkHistory = <<>>
    /\ EngineIdle
    /\ UiIdle

NextApp ==
    \/ AddInvestment
    \/ AddMainSettles
    \/ AddCounterpartSettles
    \/ removeInvestment
    \/ updateInvestment
    \/ toggleSelection
    \/ handleFileChange
    \/ ReaderOnload

SpecApp == InitApp /\ [][NextApp]_vars

\* the handlers that write isLoading, navHistory, error or the list itself
\* (updateInvestment and toggleSelection copy these fields and are left to
\* SpecApp); every fetch settles, as the promise of getMFData resolves in
\* both of its branches
NextAppLive ==
    \/ AddInvestment
    \/ AddMainSettles
    \/ AddCounterpartSettles
    \/ removeInvestment
    \/ handleFileChange
    \/ ReaderOnload

SpecAppLive ==
    /\ InitApp
    /\ [][NextAppLive]_vars
    /\ WF_vars(AddMainSettles)
    /\ WF_vars(AddCounterpartSettles)

NextBenchmark ==
    \/ BenchmarkSelect
    \/ BenchmarkClear
    \/ BenchmarkSettles

SpecBenchmark == InitApp /\ [][NextBenchmark]_vars

InitSearch ==
    /\ pc = "search"
    /\ investments = <<>>
    /\ benchmarkHistory = <<>>
    /\ EngineIdle
    /\ AppIdle
    /\ component \in Components
    /\ query = <<>>
    /\ results = <<>>
    /\ isSearching = FALSE
    /\ searchTimeout = 0
    /\ timers = <<>>

NextSearch ==
    \/ SetQuery
    \/ TimerFires
    \/ SearchSettles

SpecSearch == InitSearch /\ [][NextSearch]_vars

(***************************************************************************)
(* Properties of getNAV                                                    *)
(***************************************************************************)
SampleTime(h, i) == getTime(parseAPIDate(h[i].date))

\* stored newest-first (the order the API supplies)
NewestFirst(h) ==
    \A i, j \in 1..Len(h) : i < j => SampleTime(h, i) > SampleTime(h, j)

\* samples i and j are consecutive by date, i before j
ConsecutiveByDate(h, i, j) ==
    /\ SampleTime(h, i) < SampleTime(h, j)
    /\ ~ \E k \in 1..Len(h) :
           SampleTime(h, i) < SampleTime(h, k) /\ SampleTime(h, k) < SampleTime(h, j)

\* index of the newest / oldest sample by date
Newest(h) == CHOOSE i \in 1..Len(h) :
                \A j \in 1..Len(h) : SampleTime(h, j) <= SampleTime(h, i)

BetweenSamples(h, t) ==
    \A i, j \in 1..Len(h) :
        (ConsecutiveByDate(h, i, j)
            /\ SampleTime(h, i) < getTime(t) /\ getTime(t) < SampleTime(h, j))
        => navResult = Found(parseFloat(IF navArgs.mode = "PURCHASE"
                                        THEN h[j].nav ELSE h[i].nav))

\* C3: for any series and any target date strictly between two samples that
\* are consecutive by date, PURCHASE returns the later sample's value and
\* VALUATION the earlier sample's value.
C3_BetweenConsecutiveSamples ==
    pc = "looked" => BetweenSamples(navArgs.history, navArgs.targetDate)

Reorderings(h) ==
    { q \in [1..Len(h) -> {h[i] : i \in 1..Len(h)}] :
        \A i \in 1..Len(h) : \E j \in 1..Len(h) : q[j] = h[i] }

\* C4: getNAV returns the same result for every permutation of the series'
\* samples, for every target date and mode.
C4_OrderIndependent ==
    pc = "looked" =>
        \A q \in Reorderings(navArgs.history) :
            getNAV(q, navArgs.targetDate, navArgs.mode) = navResult

BoundaryBehaviour(h, t, mode) ==
    /\ Len(h) = 0 => navResult = NotFound
    /\ (Len(h) > 0 /\ mode = "PURCHASE"
          /\ \A i \in 1..Len(h) : getTime(t) > SampleTime(h, i))
        => navResult = Found(parseFloat(h[Newest(h)].nav))
    /\ (Len(h) > 0 /\ mode = "VALUATION"
          /\ \A i \in 1..Len(h) : getTime(t) < SampleTime(h, i))
        => navResult = NotFound

\* C5: on a non-empty series a PURCHASE lookup beyond every sample returns
\* the newest sample's value, a VALUATION lookup before every sample returns
\* not-found, and both modes return not-found on an empty series.
C5_BoundaryAsymmetry ==
    pc = "looked" =>
        BoundaryBehaviour(navArgs.history, navArgs.targetDate, navArgs.mode)

\* On series stored newest-first the lookup is as the three statements above
\* describe it.
Lookup_NewestFirst ==
    (pc = "looked" /\ NewestFirst(navArgs.history)) =>
        /\ BetweenSamples(navArgs.history, navArgs.targetDate)
        /\ BoundaryBehaviour(navArgs.history, navArgs.targetDate, navArgs.mode)

(***************************************************************************)
(* Properties of generateBacktestData and simulateInvestment               *)
(***************************************************************************)
Last(q) == q[Len(q)]

\* the iteration just executed pushed a snapshot
JustEmitted ==
    /\ iterLog # <<>>
    /\ dataPoints # <<>>
    /\ Last(iterLog).points = Len(dataPoints)
    /\ (Len(iterLog) = 1 \/ iterLog[Len(iterLog) - 1].points < Len(dataPoints))

AllDirect == \A k \in 1..Len(portfolio) : portfolio[k].isDirect
AllRegular == \A k \in 1..Len(portfolio) : ~portfolio[k].isDirect

\* C1: in every snapshot an investment held as Direct contributes its
\* Direct-scenario value to actualValue and its Regular-scenario value to
\* counterpartValue, an investment held as Regular the other way round; so
\* an all-Direct portfolio has actualValue = directValue and
\* counterpartValue = regularValue in every snapshot.
C1_ScenarioConsistency ==
    /\ JustEmitted =>
        LET at == Last(iterLog).monthEndDate
            n == Len(portfolio)
            p == Last(dataPoints)
            direct == [k \in 1..n |-> ValD(portfolio[k], at)]
            regular == [k \in 1..n |-> ValR(portfolio[k], at)]
        IN  /\ p.directValue = Round(SumSeq(direct))
            /\ p.regularValue = Round(SumSeq(regular))
            /\ p.actualValue =
                 Round(SumSeq([k \in 1..n |-> IF portfolio[k].isDirect
                                              THEN direct[k] ELSE regular[k]]))
            /\ p.counterpartValue =
                 Round(SumSeq([k \in 1..n |-> IF portfolio[k].isDirect
                                              THEN regular[k] ELSE direct[k]]))
    /\ AllDirect =>
        \A i \in 1..Len(dataPoints) :
            /\ dataPoints[i].actualValue = dataPoints[i].directValue
            /\ dataPoints[i].counterpartValue = dataPoints[i].regularValue
    /\ AllRegular =>
        \A i \in 1..Len(dataPoints) :
            /\ dataPoints[i].actualValue = dataPoints[i].regularValue
            /\ dataPoints[i].counterpartValue = dataPoints[i].directValue

\* a snapshot of a portfolio holding one Direct and one Regular plan, in
\* which the two scenarios are worth different amounts
C1_Witness ==
    /\ JustEmitted
    /\ ~AllDirect /\ ~AllRegular
    /\ Last(dataPoints).directValue # Last(dataPoints).regularValue
    /\ Last(dataPoints).actualValue # Last(dataPoints).directValue
    /\ Last(dataPoints).actualValue # Last(dataPoints).regularValue
    /\ Last(dataPoints).counterpartValue > 0

\* payment dates a sequence of cash flows / a post log holds
DatesOf(q) == { q[i] : i \in 1..Len(q) }
FlowDates(r) == { r.cashFlows[i].date : i \in 1..Len(r.cashFlows) }

\* the post log of the investment with this id ({} when it was filtered out)
PostedDates(id) ==
    UNION { DatesOf(postLog[k]) : k \in { j \in 1..Len(portfolio) :
                                            portfolio[j].id = id } }

\* C2: each investment posts the same contribution dates in
\* generateBacktestData as simulateInvestment posts on its primary series,
\* so the last snapshot's investedAmount is the sum of the totalInvested
\* that simulateInvestment returns.
C2_AggregatorMatchesSimulator ==
    pc = "done" =>
        /\ \A k \in 1..Len(investments) :
               PostedDates(investments[k].id) = FlowDates(simResults[k])
        /\ dataPoints # <<>> =>
               Last(dataPoints).investedAmount =
                   SumSeq([k \in 1..Len(investments) |->
                              simResults[k].totalInvested])

\* calendar months as a running index
MonthIndex(dt) == dt.y * 12 + dt.m

\* the candidate date of a monthly schedule with this day of month
Candidate(startDay, mi) ==
    LET y == mi \div 12
        m == mi % 12
    IN  [y |-> y, m |-> m, d |-> Min(startDay, MonthLength(y, m))]

\* one candidate per calendar month from the month of startDate through the
\* current month
WindowCandidates(inv, now) ==
    LET start == parseISODate(inv.startDate)
    IN  { Candidate(start.d, mi) : mi \in MonthIndex(start)..MonthIndex(now) }

InSchedule(inv, d, now) ==
    /\ getTime(parseISODate(inv.startDate)) <= getTime(d)
    /\ getTime(d) <= getTime(now)
    /\ inv.endDate # <<>> => getTime(d) <= getTime(parseISODate(inv.endDate))

ExpectedSipDates(inv, now) ==
    { d \in WindowCandidates(inv, now) :
        /\ InSchedule(inv, d, now)
        /\ Truthy(getNAV(inv.navHistory, d, "PURCHASE")) }

\* C6: for a SIP simulateInvestment posts exactly on the candidate dates, one
\* per calendar month from the month of startDate through the current
\* month, that are >= startDate, <= today, <= endDate when set, and on
\* which the PURCHASE lookup succeeds; nothing is posted outside.
C6_SipWindow ==
    pc = "done" =>
        \A k \in 1..Len(investments) :
            investments[k].type = "SIP" =>
                /\ FlowDates(simResults[k]) = ExpectedSipDates(investments[k], today)
                /\ Len(simResults[k].cashFlows) =
                       Cardinality(ExpectedSipDates(investments[k], today))

\* a SIP with an end date that posted and skipped candidates of its window:
\* one after endDate and one after today
C6_Witness ==
    /\ pc = "done"
    /\ \E k \in 1..Len(investments) :
        /\ investments[k].type = "SIP"
        /\ investments[k].endDate # <<>>
        /\ Len(simResults[k].cashFlows) >= 1
        /\ \E d \in WindowCandidates(investments[k], today) :
               getTime(d) > getTime(parseISODate(investments[k].endDate))
        /\ \E d \in WindowCandidates(investments[k], today) :
               getTime(d) > getTime(today)

\* C7: totalInvested = amount * number of cash flows, every cash flow is
\* -amount, and units is the sum over the posted dates of amount / PURCHASE
\* value at that date; a period whose lookup fails adds nothing.
C7_UnitsAndTotals ==
    pc = "done" =>
        \A k \in 1..Len(investments) :
            LET inv == investments[k]
                r == simResults[k]
                n == Len(r.cashFlows)
                price(i) == getNAV(inv.navHistory, r.cashFlows[i].date, "PURCHASE")
            IN  /\ r.totalInvested = inv.amount * n
                /\ \A i \in 1..n : r.cashFlows[i].amount = 0 - inv.amount
                /\ \A i \in 1..n : Truthy(price(i))
                /\ r.units = SumSeq([i \in 1..n |->
                                        (inv.amount * UnitScale) \div price(i).value])

\* 100 a month from the 15th of January over three posted months at the
\* values 5, 6 and 6, beside a SIP of which one period found no usable NAV
C7_Witness ==
    /\ pc = "done"
    /\ \E k \in 1..Len(investments) :
        /\ investments[k].type = "SIP"
        /\ Len(simResults[k].cashFlows) = 3
        /\ simResults[k].totalInvested = 300
        /\ simResults[k].units = (100 * UnitScale) \div 5
                                 + 2 * ((100 * UnitScale) \div 6)

\* a SIP period in schedule whose lookup gave no usable value: nothing posted
Sim_SkippedPeriod ==
    /\ pc = "done"
    /\ \E k \in 1..Len(investments) :
        /\ investments[k].type = "SIP"
        /\ Len(investments[k].navHistory) > 0
        /\ \E d \in WindowCandidates(investments[k], today) :
            /\ InSchedule(investments[k], d, today)
            /\ ~Truthy(getNAV(investments[k].navHistory, d, "PURCHASE"))
            /\ d \notin FlowDates(simResults[k])

FebruaryEnd(y) == [y |-> y, m |-> 1, d |-> IF IsLeapYear(y) THEN 29 ELSE 28]
MarchEnd(y) == [y |-> y, m |-> 2, d |-> 31]

\* the day of month a day-31 schedule pays on
ClampedDay31(dt) ==
    IF dt.m = 1 THEN dt = FebruaryEnd(dt.y)
    ELSE IF dt.m \in {3, 5, 8, 10} THEN dt.d = 30 ELSE dt.d = 31

\* C8: a SIP whose startDate is on the 31st posts its February contribution
\* on the 28th (29th in a leap year) and returns to the 31st in later
\* 31-day months, in simulateInvestment and in generateBacktestData.
C8_DayClamp ==
    pc = "done" =>
        \A k \in 1..Len(investments) :
            LET inv == investments[k] IN
            (inv.type = "SIP" /\ parseISODate(inv.startDate).d = 31) =>
                /\ \A d \in FlowDates(simResults[k]) \cup PostedDates(inv.id) :
                       ClampedDay31(d)
                /\ \A d \in {FebruaryEnd(today.y), MarchEnd(today.y)} :
                    InSchedule(inv, d, today) =>
                        /\ HasData(inv) => d \in PostedDates(inv.id)
                        /\ Truthy(getNAV(inv.navHistory, d, "PURCHASE"))
                               => d \in FlowDates(simResults[k])

\* a day-31 SIP that paid on the 29th of February of a leap year and on the
\* 31st of March after it, in both functions
C8_Witness ==
    /\ pc = "done"
    /\ IsLeapYear(today.y)
    /\ \E k \in 1..Len(investments) :
        /\ investments[k].type = "SIP"
        /\ parseISODate(investments[k].startDate).d = 31
        /\ {[y |-> today.y, m |-> 1, d |-> 29], MarchEnd(today.y)}
               \subseteq (FlowDates(simResults[k])
                            \cap PostedDates(investments[k].id))

Returned == pc \in {"charted", "done"}

\* the loop has executed the iteration of this calendar month
Iterated(dt) ==
    \E i \in 1..Len(iterLog) :
        iterLog[i].year = dt.y /\ iterLog[i].month = dt.m

LumpsumPostsAtMostOnce(k) ==
    LET inv == portfolio[k] IN
    /\ Len(postLog[k]) <= 1
    /\ Len(postLog[k]) = 1 <=> Iterated(inv.parsedStartDate)
    /\ Len(postLog[k]) = 1 => postLog[k][1] = inv.parsedStartDate
    /\ inv.hasLumpsumInvested <=> Len(postLog[k]) = 1
    /\ inv.totalInvested = inv.amount * Len(postLog[k])

\* C9 as stated: over the whole replay every lumpsum posts exactly once, in
\* the iteration of its start month, and its totalInvested is amount from
\* then on.
C9_LumpsumExactlyOnce ==
    \A k \in 1..Len(portfolio) :
        portfolio[k].type = "LUMPSUM" =>
            /\ LumpsumPostsAtMostOnce(k)
            /\ Returned => Len(postLog[k]) = 1

\* C9 (amended): a lumpsum posts at most once, in the iteration whose month
\* and year match its start date and never again, and its totalInvested is
\* amount from that month onward; over the whole replay it posts exactly
\* once when its start month is not later than the current month, and not
\* at all when its start date lies in a later month.
C9_LumpsumOnceIfReached ==
    \A k \in 1..Len(portfolio) :
        portfolio[k].type = "LUMPSUM" =>
            /\ LumpsumPostsAtMostOnce(k)
            /\ Returned =>
                (Len(postLog[k]) = 1 <=>
                    MonthIndex(portfolio[k].parsedStartDate) <= MonthIndex(today))

\* a lumpsum that posted in an earlier iteration and stayed at amount through
\* two later months
C9_Witness ==
    /\ Returned
    /\ \E k \in 1..Len(portfolio) :
        /\ portfolio[k].type = "LUMPSUM"
        /\ Len(postLog[k]) = 1
        /\ portfolio[k].totalInvested = portfolio[k].amount
        /\ MonthIndex(portfolio[k].parsedStartDate) + 2 <= MonthIndex(today)
        /\ Iterated(today)

\* the month of the earliest start date among the investments with data
HasQualifying == \E k \in 1..Len(investments) : HasData(investments[k])
EarliestStartMonth ==
    LET qualifying == { k \in 1..Len(investments) : HasData(investments[k]) }
        first == CHOOSE k \in qualifying :
                    \A j \in qualifying :
                        getTime(parseISODate(investments[k].startDate)) <=
                        getTime(parseISODate(investments[j].startDate))
    IN  MonthIndex(parseISODate(investments[first].startDate))

IterMonth(i) == iterLog[i].year * 12 + iterLog[i].month
PointsBefore(i) == IF i = 1 THEN 0 ELSE iterLog[i - 1].points
Emitted(i) == iterLog[i].points > PointsBefore(i)
LabelIndex(label) == label[2] * 12 + label[1]

\* C10: one iteration per calendar month from the month of the earliest
\* start date through the current month; at most one snapshot per month, in
\* chronological order, only when the cumulative invested amount is
\* strictly positive; once a snapshot is emitted every later month emits
\* one.
C10_MonthlySnapshots ==
    /\ \A i \in 1..Len(iterLog) :
        /\ IterMonth(i) = EarliestStartMonth + (i - 1)
        /\ IterMonth(i) <= MonthIndex(today)
        /\ iterLog[i].points \in {PointsBefore(i), PointsBefore(i) + 1}
        /\ Emitted(i) =>
            /\ iterLog[i].totalInvested > 0
            /\ dataPoints[iterLog[i].points].investedAmount > 0
            /\ dataPoints[iterLog[i].points].month =
                   MonthLabel(iterLog[i].monthEndDate)
            /\ iterLog[i].monthEndDate.y = iterLog[i].year
            /\ iterLog[i].monthEndDate.m = iterLog[i].month
        /\ \A j \in 1..Len(iterLog) : (i < j /\ Emitted(i)) => Emitted(j)
    /\ Len(dataPoints) = IF iterLog = <<>> THEN 0 ELSE Last(iterLog).points
    /\ \A a, b \in 1..Len(dataPoints) :
        a < b => LabelIndex(dataPoints[a].month) < LabelIndex(dataPoints[b].month)
    /\ Returned =>
        IF HasQualifying /\ EarliestStartMonth <= MonthIndex(today)
        THEN Len(iterLog) = MonthIndex(today) - EarliestStartMonth + 1
        ELSE iterLog = <<>>

\* a replay that skipped a leading month with nothing invested and then
\* emitted a snapshot in each of the following months
C10_Witness ==
    /\ Returned
    /\ Len(iterLog) >= 3
    /\ ~Emitted(1)
    /\ Emitted(Len(iterLog) - 1) /\ Emitted(Len(iterLog))
    /\ Len(dataPoints) >= 2

(***************************************************************************)
(* Properties of the metrics                                               *)
(***************************************************************************)
Analysed == pc = "analysed"

\* a value that is not a number
IsAbsent(x) == x = Undefined

\* C11: with no benchmark series supplied (benchmarkHistory empty, as the
\* application passes it when no benchmark is selected)
\* calculatePortfolioStats returns alpha and beta undefined and
\* calculateFundRatios reports no numeric alpha or beta for any fund or for
\* the portfolio; none of them is the number 0.
C11_NoBenchmarkNoAlphaBeta ==
    (Analysed /\ Len(benchmarkHistory) = 0) =>
        /\ IsAbsent(stats.alpha) /\ IsAbsent(stats.beta)
        /\ \A k \in 1..Len(ratios.funds) :
               IsAbsent(ratios.funds[k].alpha) /\ IsAbsent(ratios.funds[k].beta)
        /\ IsAbsent(ratios.portfolio.alpha) /\ IsAbsent(ratios.portfolio.beta)

\* without a benchmark every alpha and beta that is reported is the number 0
Stats_ZeroWithoutBenchmark ==
    (Analysed /\ Len(benchmarkHistory) = 0) =>
        /\ stats.alpha = Defined(0) /\ stats.beta = Defined(0)
        /\ \A k \in 1..Len(ratios.funds) :
               /\ ratios.funds[k].alpha = Defined(0)
               /\ ratios.funds[k].beta = Frac(0, 1)
        /\ ratios.portfolio.alpha = Defined(0)
        /\ ratios.portfolio.beta.num = 0

XirrReturned == pc = "returned"

\* C12: calculateXIRR returns 0 whenever the solve fails, both when a step
\* yields a non-finite rate and when the stopping condition |f(r)| < 1 has
\* not been met after the 50th iteration; a non-zero result is returned only
\* after the stopping condition was met.
C12_FailureReturnsZero ==
    XirrReturned => (xirr.settled \/ xirr.result = 0)

\* what calculateXIRR returns in each of its four exits
Xirr_Exits ==
    XirrReturned =>
        /\ Len(xirr.flows) < 2 => xirr.result = 0
        /\ xirr.settled => xirr.result = xirr.rate * 100
        /\ (~xirr.settled /\ Len(xirr.flows) >= 2 /\ xirr.i < MaxIterations)
               => xirr.result = 0
        /\ (~xirr.settled /\ xirr.i = MaxIterations)
               => xirr.result = xirr.rate * 100

\* the loop ran out without meeting the stopping condition and the last
\* rate, a loss of more than 100 percent, was returned
Xirr_ExhaustedNonZero ==
    /\ XirrReturned
    /\ ~xirr.settled
    /\ xirr.i = MaxIterations
    /\ xirr.result < 0 - 100 * RateScale

\* a step gave a non-finite rate and 0 was returned
Xirr_NonFiniteZero ==
    /\ XirrReturned
    /\ ~xirr.settled
    /\ Len(xirr.flows) >= 2
    /\ xirr.i < MaxIterations
    /\ xirr.result = 0

\* the flows of the example: 100000 out, 110000 back 365 days later
IsExample(flows) ==
    /\ Len(flows) = 2
    /\ flows[1].amount = 0 - 100000
    /\ flows[2].amount = 110000
    /\ DayNumber(flows[2].date) - DayNumber(flows[1].date) = 365

\* C13: for a single outflow of 100000 and a terminal value of 110000
\* exactly 365 days later calculateXIRR returns a value within 0.5 of 10
\* (percent); whenever the initial guess 0.10 already satisfies |f(r)| < 1
\* the solver stops without taking a step and returns 10.
C13_TenPercent ==
    XirrReturned =>
        /\ IsExample(xirr.flows) =>
               Abs(xirr.result - 10 * RateScale) <= RateScale \div 2
        /\ (Len(xirr.flows) >= 2 /\ Abs(fValue(xirr.flows, RateScale \div 10))
                                        < MoneyScale)
               => (xirr.i = 0 /\ xirr.settled /\ xirr.result = 10 * RateScale)

\* the example has returned 10 without a step
C13_Witness ==
    /\ XirrReturned
    /\ IsExample(xirr.flows)
    /\ xirr.i = 0
    /\ xirr.result = 10 * RateScale

\* a solve that took steps and met the stopping condition at 20 percent
Xirr_ConvergedAfterSteps ==
    /\ XirrReturned
    /\ xirr.settled
    /\ xirr.i > 0
    /\ xirr.result = 20 * RateScale

Called(fn) == pc = "called" /\ callArgs.fn = fn

\* the largest value at or before position i
PeakAt(values, i) ==
    CHOOSE p \in { values[j] : j \in 1..i } : \A j \in 1..i : values[j] <= p

NonDecreasing(values) ==
    \A i \in 1..(Len(values) - 1) : values[i] <= values[i + 1]

\* C14: calculateMaxDrawdown returns 0 for an empty sequence and for every
\* non-decreasing sequence, 50 for [100, 50, 100], and in general 100 times
\* the maximum over the positions i of (peak_i - value_i) / peak_i, peak_i
\* being the largest value at or before i; for non-negative values the
\* result lies between 0 and 100.
C14_MaxDrawdown ==
    Called("calculateMaxDrawdown") =>
        LET values == callArgs.values
            r == callResult
            falls == { i \in 1..Len(values) : PeakAt(values, i) > 0 }
            fall(i) == 100 * (PeakAt(values, i) - values[i])
        IN  /\ r.den > 0
            /\ Len(values) = 0 => r.num = 0
            /\ NonDecreasing(values) => r.num = 0
            /\ values = <<100, 50, 100>> => r.num = 50 * r.den
            /\ \A i \in falls : fall(i) * r.den <= r.num * PeakAt(values, i)
            /\ \/ r.num = 0
               \/ \E i \in falls : fall(i) * r.den = r.num * PeakAt(values, i)
            /\ 0 <= r.num /\ r.num <= 100 * r.den

\* [100, 50, 100] gave 50
C14_Witness ==
    /\ Called("calculateMaxDrawdown")
    /\ callArgs.values = <<100, 50, 100>>
    /\ callResult.num = 50 * callResult.den

\* the dates on or after startDate that both series hold
CommonDateSet(assetHistory, benchHistory, startDate) ==
    { d \in { benchHistory[i].date : i \in 1..Len(benchHistory) } :
        /\ \E i \in 1..Len(assetHistory) : assetHistory[i].date = d
        /\ getTime(parseAPIDate(d)) >= getTime(startDate) }

NavOn(history, date) ==
    parseFloat(history[CHOOSE i \in 1..Len(history) :
                          history[i].date = date].nav)

\* the returns of the benchmark between common dates consecutive by date
BenchReturns(benchHistory, dates) ==
    { Return(NavOn(benchHistory, c), NavOn(benchHistory, p)) :
        <<p, c>> \in { pr \in dates \X dates :
            /\ getTime(parseAPIDate(pr[1])) < getTime(parseAPIDate(pr[2]))
            /\ ~ \E m \in dates :
                  /\ getTime(parseAPIDate(pr[1])) < getTime(parseAPIDate(m))
                  /\ getTime(parseAPIDate(m)) < getTime(parseAPIDate(pr[2])) } }

BetaCommon ==
    CommonDateSet(callArgs.assetHistory, callArgs.benchmarkHistory,
                  callArgs.startDate)

\* C15: calculateBeta returns exactly 1 whenever fewer than 30 dates on or
\* after the start date are present in both series, whatever the sample
\* values, and also when the benchmark returns have zero variance.
C15_BetaDefault ==
    Called("calculateBeta") =>
        /\ Cardinality(BetaCommon) < 30 => callResult = Frac(1, 1)
        /\ Cardinality(BenchReturns(callArgs.benchmarkHistory, BetaCommon)) <= 1
               => callResult = Frac(1, 1)

\* 29 common dates with moving values on both sides gave 1
C15_Witness ==
    /\ Called("calculateBeta")
    /\ Cardinality(BetaCommon) = 29
    /\ Cardinality(BenchReturns(callArgs.benchmarkHistory, BetaCommon)) > 1
    /\ Cardinality(BenchReturns(callArgs.assetHistory, BetaCommon)) > 1
    /\ callResult = Frac(1, 1)

\* 30 common dates and a flat benchmark gave 1
Beta_ZeroVariance ==
    /\ Called("calculateBeta")
    /\ Cardinality(BetaCommon) >= 30
    /\ Cardinality(BenchReturns(callArgs.benchmarkHistory, BetaCommon)) = 1
    /\ callResult = Frac(1, 1)

\* 30 common dates and a moving benchmark gave covariance / variance
Beta_Computed ==
    /\ Called("calculateBeta")
    /\ Cardinality(BetaCommon) >= 30
    /\ callResult # Frac(1, 1)
    /\ callResult.den > 0

\* a text that is a calendar date in the format the parser expects
IsAPIDateText(t) ==
    /\ Len(t) = 3
    /\ t[3] \in 1000..9999
    /\ t[2] \in 1..12
    /\ t[1] >= 1 /\ t[1] <= MonthLength(t[3], t[2] - 1)

IsISODateText(t) ==
    /\ Len(t) = 3
    /\ t[1] \in 1000..9999
    /\ t[2] \in 1..12
    /\ t[3] >= 1 /\ t[3] <= MonthLength(t[1], t[2] - 1)

\* C20: a malformed date string is never silently misinterpreted: when
\* parseAPIDate or parseISODate receives a text that is not a valid date in
\* its format (a yyyy-mm-dd text handed to the dd-mm-yyyy parser included)
\* the outcome is a visible failure, not a valid but wrong calendar date.
C20_NoSilentMisparse ==
    /\ Called("parseAPIDate") =>
        LET t == callArgs.dateStr IN
        IF IsAPIDateText(t)
        THEN callResult = [y |-> t[3], m |-> t[2] - 1, d |-> t[1]]
        ELSE callResult = InvalidDate
    /\ Called("parseISODate") =>
        LET t == callArgs.dateStr IN
        IF IsISODateText(t)
        THEN callResult = [y |-> t[1], m |-> t[2] - 1, d |-> t[3]]
        ELSE callResult = InvalidDate

\* a text that is a date in the parser's format gives that date, and a text
\* of fewer than three fields gives Invalid Date
Parse_WellFormed ==
    /\ Called("parseAPIDate") =>
        LET t == callArgs.dateStr IN
        /\ IsAPIDateText(t) =>
               callResult = [y |-> t[3], m |-> t[2] - 1, d |-> t[1]]
        /\ Len(t) < 3 => callResult = InvalidDate
    /\ Called("parseISODate") =>
        LET t == callArgs.dateStr IN
        /\ IsISODateText(t) =>
               callResult = [y |-> t[1], m |-> t[2] - 1, d |-> t[3]]
        /\ Len(t) < 3 => callResult = InvalidDate

\* 2023-01-15 handed to parseAPIDate came back as a day of July 1920
Parse_ISOTextAsAPI ==
    /\ Called("parseAPIDate")
    /\ callArgs.dateStr = <<2023, 1, 15>>
    /\ callResult = [y |-> 1920, m |-> 6, d |-> 15]

\* 31-02-2023 came back as the 3rd of March 2023
Parse_DayOverflow ==
    /\ Called("parseAPIDate")
    /\ callArgs.dateStr = <<31, 2, 2023>>
    /\ callResult = [y |-> 2023, m |-> 2, d |-> 3]

StatsReturned == pc \in {"stats", "analysed"}

NewestNav(h) == parseFloat(h[Newest(h)].nav)

\* the result is units times the newest sample's value, all zero without
\* samples
ValuedAtNewest(r, h) ==
    IF Len(h) = 0 THEN r = ZeroResult
    ELSE r.currentValue = r.units * NewestNav(h)

\* C16: simulateInvestment returns currentValue = units times the value of
\* the newest (latest-dated) sample of the series it was given, for every
\* non-empty series, and the all-zero result (units 0, totalInvested 0, no
\* cash flows, currentValue 0) when the series is empty.
C16_CurrentValueAtNewest ==
    StatsReturned =>
        \A k \in 1..Len(investments) :
            LET inv == investments[k] IN
            /\ ValuedAtNewest(simResults[k], inv.navHistory)
            /\ ValuedAtNewest(
                   simulateInvestment(inv, inv.counterpartNavHistory, today),
                   inv.counterpartNavHistory)

\* on series stored newest-first the current value is as stated
Sim_ValuedAtNewestIfSorted ==
    StatsReturned =>
        \A k \in 1..Len(investments) :
            \A h \in {investments[k].navHistory,
                      investments[k].counterpartNavHistory} :
                NewestFirst(h) =>
                    ValuedAtNewest(simulateInvestment(investments[k], h, today), h)

\* a counterpart series stored oldest-first was valued at its first, oldest
\* sample: counterpartValue is units times 3, the newest value being 6
Sim_ValuedAtFirstSample ==
    /\ StatsReturned
    /\ Len(investments) = 1
    /\ LET inv == investments[1]
           r == simulateInvestment(inv, inv.counterpartNavHistory, today)
       IN  /\ Len(inv.counterpartNavHistory) > 0
           /\ r.units > 0
           /\ NewestNav(inv.counterpartNavHistory) = 6
           /\ stats.counterpartValue = r.units * 3

\* C17: netImpact = actualValue - counterpartValue, and an investment whose
\* counterpart series is missing or empty adds its own actual current value
\* to counterpartValue, that is zero to netImpact; a portfolio in which no
\* investment has counterpart data has netImpact exactly 0.
C17_NetImpact ==
    StatsReturned =>
        LET n == Len(investments)
            own(k) == simResults[k].currentValue
            other(k) ==
                IF Len(investments[k].counterpartNavHistory) > 0
                THEN simulateInvestment(investments[k],
                         investments[k].counterpartNavHistory, today).currentValue
                ELSE own(k)
        IN  /\ stats.actualValue = SumSeq([k \in 1..n |-> own(k)])
            /\ stats.counterpartValue = SumSeq([k \in 1..n |-> other(k)])
            /\ stats.netImpact = stats.actualValue - stats.counterpartValue
            /\ stats.netImpact = SumSeq([k \in 1..n |-> own(k) - other(k)])
            /\ (\A k \in 1..n : Len(investments[k].counterpartNavHistory) = 0)
                   => stats.netImpact = 0

\* a holding worth something, without counterpart series: no impact
C17_Witness ==
    /\ StatsReturned
    /\ \A k \in 1..Len(investments) :
           Len(investments[k].counterpartNavHistory) = 0
    /\ stats.actualValue > 0
    /\ stats.counterpartValue = stats.actualValue
    /\ stats.netImpact = 0

\* a portfolio whose two plans differ in value: the impact is the difference
Stats_NonZeroImpact ==
    /\ StatsReturned
    /\ stats.netImpact # 0
    /\ stats.counterpartValue > 0

\* today a year earlier and a year later
OtherDays == { NewDate(today.y - 1, today.m, today.d),
               NewDate(today.y + 1, today.m, today.d) }

\* the entries of funds that calculateFundRatios made for this investment
FundsOf(id) ==
    { ratios.funds[j] : j \in { i \in 1..Len(ratios.funds) :
                                   ratios.funds[i].id = id } }

\* C18: simulating a single-event (lumpsum) schedule twice against the same
\* series yields identical results (units, totalInvested, cash flows,
\* currentValue): the result is a function of the schedule and the series
\* only and does not depend on today's date or on an earlier call.
C18_LumpsumRepeatable ==
    Analysed =>
        \A k \in 1..Len(investments) :
            LET inv == investments[k] IN
            inv.type = "LUMPSUM" =>
                /\ \A now \in OtherDays \cup {today} :
                       simulateInvestment(inv, inv.navHistory, now) = simResults[k]
                /\ \A f \in FundsOf(inv.id) :
                       /\ f.invested = simResults[k].totalInvested
                       /\ f.currentValue = simResults[k].currentValue
                /\ Len(inv.navHistory) > 0 => FundsOf(inv.id) # {}

\* a lumpsum dated after today bought units when calculatePortfolioStats
\* simulated it and again when calculateFundRatios did
C18_Witness ==
    /\ Analysed
    /\ \E k \in 1..Len(investments) :
        /\ investments[k].type = "LUMPSUM"
        /\ getTime(parseISODate(investments[k].startDate)) > getTime(today)
        /\ simResults[k].units > 0
        /\ Len(simResults[k].cashFlows) = 1
        /\ \E f \in FundsOf(investments[k].id) :
               f.currentValue = simResults[k].currentValue

\* the investment a portfolio entry was copied from
SourceOf(id) == CHOOSE j \in 1..Len(investments) : investments[j].id = id

\* the copies still hold the series and the fields of their investments
CopiesAgree ==
    \A k \in 1..Len(portfolio) :
        LET inv == investments[SourceOf(portfolio[k].id)] IN
        /\ portfolio[k].navHistory = inv.navHistory
        /\ portfolio[k].counterpartNavHistory = inv.counterpartNavHistory
        /\ portfolio[k].amount = inv.amount
        /\ portfolio[k].type = inv.type
        /\ portfolio[k].isDirect = inv.isDirect
        /\ portfolio[k].parsedStartDate = parseISODate(inv.startDate)

MonthsHeld(inv, now) ==
    LET start == parseISODate(inv.startDate)
    IN  (now.y - start.y) * 12 + (now.m - start.m)

\* the most generous count of data points / periods behind the alpha of a
\* fund: the samples of its own series, those of the benchmark, the months
\* it has been held
FundDataPoints(inv, benchHistory, now) ==
    LET a == Len(inv.navHistory)
        b == Len(benchHistory)
        c == MonthsHeld(inv, now)
        ab == IF a > b THEN a ELSE b
    IN  IF ab > c THEN ab ELSE c

\* C21: both alpha paths require a minimum amount of data: the portfolio
\* path computes alpha/beta from the formulas only with more than 6 monthly
\* snapshots, and the per-fund path computes a fund's alpha from Jensen's
\* formula only when at least 6 data points / periods are available.
C21_AlphaNeedsMinimumData ==
    Analysed =>
        /\ stats.alpha = Computed => Len(dataPoints) > MinSnapshots
        /\ \A k \in 1..Len(investments) :
               \A f \in FundsOf(investments[k].id) :
                   f.alpha = Computed =>
                       FundDataPoints(investments[k], benchmarkHistory, today)
                           >= MinSnapshots

\* the per-fund path computes alpha as soon as the benchmark has a sample
\* on or before the start date, whatever the amount of data
Ratios_AlphaWithoutMinimum ==
    Analysed =>
        \A k \in 1..Len(investments) :
            \A f \in FundsOf(investments[k].id) :
                f.alpha = Computed <=>
                    /\ Len(benchmarkHistory) > 0
                    /\ Truthy(getNAV(benchmarkHistory,
                                     parseISODate(investments[k].startDate),
                                     "PURCHASE"))

\* a fund held for three months, with four samples and a benchmark of two,
\* was given a computed alpha
Ratios_AlphaOnShortData ==
    /\ Analysed
    /\ \E k \in 1..Len(investments) :
        /\ FundDataPoints(investments[k], benchmarkHistory, today) < MinSnapshots
        /\ \E f \in FundsOf(investments[k].id) : f.alpha = Computed

(***************************************************************************)
(* Properties of the App                                                   *)
(***************************************************************************)
\* no call of handleBenchmarkSelect is waiting for getMFData
NoBenchmarkFetch ==
    \A c \in 1..Len(benchmarkCalls) : benchmarkCalls[c].pc = "done"

\* C22: after any sequence of benchmark selections and clears, with fetches
\* completing in any order or failing, once no fetch is in flight
\* benchmarkHistory is the data of the selected benchmarkScheme (or still
\* empty when its fetch gave none) and is empty when benchmarkScheme is
\* null: it is never the series of another scheme.
C22_BenchmarkMatchesSelection ==
    (pc = "app" /\ NoBenchmarkFetch) =>
        IF benchmarkScheme.defined
        THEN benchmarkHistory \in {<<>>, SchemeSeries(benchmarkScheme.value)}
        ELSE benchmarkHistory = <<>>

\* a response that arrives after a clear is shown with no scheme selected
Benchmark_DataAfterClear ==
    /\ NoBenchmarkFetch
    /\ ~benchmarkScheme.defined
    /\ benchmarkHistory # <<>>

\* the series of one scheme is shown under the other
Benchmark_OtherSchemeShown ==
    /\ NoBenchmarkFetch
    /\ benchmarkScheme.defined
    /\ \E code \in BenchmarkSchemes \ {benchmarkScheme.value} :
           benchmarkHistory = SchemeSeries(code)

\* C23: an investment removed while its NAV fetch is in flight is never
\* re-added or modified when the fetch completes, successfully or not: a
\* step in which a call of handleAddInvestment gets a response changes at
\* most the entries whose id is the call's, leaves the list as it is when
\* no entry has that id, and keeps the ids and the order of the list.
C23_RemovedNeverReadded ==
    [][ \A c \in 1..Len(addCalls) :
            addCalls'[c].pc # addCalls[c].pc =>
                /\ IdsOf(investments') = IdsOf(investments)
                /\ \A k \in 1..Len(investments) :
                       investments[k].id # addCalls[c].id =>
                           investments'[k] = investments[k]
                /\ ~Listed(investments, addCalls[c].id) =>
                       investments' = investments ]_vars

\* a call finished after removeInvestment had taken its entry out of a
\* list that still holds another investment
C23_Witness ==
    /\ fileReads = <<>>
    /\ investments # <<>>
    /\ \E c \in 1..Len(addCalls) :
           /\ addCalls[c].pc = "done"
           /\ ~addCalls[c].listed
           /\ ~Listed(investments, addCalls[c].id)

\* a call of handleAddInvestment is waiting for a fetch
AddInFlight(c) == addCalls[c].pc # "done"

\* C24: isProcessing is true whenever at least one call of
\* handleAddInvestment has a fetch in flight, also when several calls
\* overlap; it is false only when the last of them has finished.
C24_ProcessingWhileInFlight ==
    pc = "app" =>
        ((\E c \in 1..Len(addCalls) : AddInFlight(c)) => isProcessing)

\* with one call at a time the flag follows the call
Processing_SingleCall ==
    (pc = "app" /\ Len(addCalls) <= 1) =>
        (isProcessing <=> \E c \in 1..Len(addCalls) : AddInFlight(c))

\* the first of two overlapping calls finished and cleared the flag while
\* the second is still waiting
Processing_ClearedEarly ==
    /\ ~isProcessing
    /\ \E c, d \in 1..Len(addCalls) :
           /\ addCalls[c].pc = "done"
           /\ AddInFlight(d)
           /\ \E k \in 1..Len(investments) :
                  investments[k].id = addCalls[d].id /\ investments[k].isLoading

\* C25: after any sequence of add, remove, update, toggle-selection and
\* import operations selectedInvestmentId is null or the id of an
\* investment in the list, so activeInvestments is not empty merely
\* because the selection points at an investment that is gone.
C25_SelectionListed ==
    pc = "app" =>
        /\ selectedInvestmentId.defined =>
               Listed(investments, selectedInvestmentId)
        /\ investments # <<>> => activeInvestments # <<>>

\* as long as no file was imported the selection is null or listed
Selection_ListedWithoutImport ==
    (pc = "app" /\ fileReads = <<>>) =>
        (selectedInvestmentId.defined =>
             Listed(investments, selectedInvestmentId))

\* an import replaced the list and the selection names an investment that
\* is gone: nothing is analysed although the list is not empty
Selection_DanglingAfterImport ==
    /\ selectedInvestmentId.defined
    /\ ~Listed(investments, selectedInvestmentId)
    /\ investments # <<>>
    /\ activeInvestments = <<>>

\* the entries of the list with the id of a call
EntriesOf(invs, c) == { k \in 1..Len(invs) : invs[k].id = addCalls[c].id }

\* what handleAddInvestment writes when it begins and when it finishes
Loading_SettleWrites ==
    [][ /\ Len(addCalls') > Len(addCalls) =>
            LET new == investments'[Len(investments')] IN
            /\ Len(investments') = Len(investments) + 1
            /\ new.id = addCalls'[Len(addCalls')].id
            /\ new.isLoading
            /\ new.navHistory = <<>>
        /\ \A c \in 1..Len(addCalls) :
            (AddInFlight(c) /\ addCalls'[c].pc = "done") =>
                LET main == addCalls'[c].mainData
                    other == addCalls'[c].counterpartData
                IN  \A k \in EntriesOf(investments, c) :
                      LET inv == investments'[k] IN
                      /\ ~inv.isLoading
                      /\ main.defined =>
                            /\ inv.navHistory = main.value.data
                            /\ inv.error =
                                 IF other.defined THEN NoText
                                 ELSE Defined("Comparison data unavailable")
                      /\ ~main.defined =>
                            /\ inv.error = Defined("Failed to fetch data.")
                            /\ inv.navHistory = <<>> ]_vars

\* C26: an investment created by handleAddInvestment starts with
\* isLoading = true and an empty navHistory and, unless it is removed
\* first, eventually has isLoading = false once its fetches settle: when
\* the primary fetch gave data navHistory is the fetched series and error
\* is "Comparison data unavailable" exactly when getMFData gave no
\* counterpart data (no counterpart scheme, or null), and when the
\* primary fetch failed error is "Failed to fetch data." and navHistory
\* stays empty.
C26_LoadingSettles ==
    /\ Loading_SettleWrites
    /\ \A c \in 1..MaxAdds :
           \/ [](Len(addCalls) < c)
           \/ <>(/\ Len(addCalls) >= c
                 /\ addCalls[c].pc = "done"
                 /\ \A k \in EntriesOf(investments, c) :
                        ~investments[k].isLoading)

\* two calls have finished with their investments in the list: one loaded
\* the series of its scheme and of its counterpart, the other failed
C26_Witness ==
    \E c, d \in 1..Len(addCalls) :
        /\ addCalls[c].pc = "done" /\ addCalls[d].pc = "done"
        /\ addCalls[c].counterpartData.defined
        /\ ~addCalls[d].mainData.defined
        /\ \E k \in EntriesOf(investments, c) :
               /\ ~investments[k].isLoading
               /\ investments[k].navHistory = SchemeSeries(addCalls[c].invested)
               /\ investments[k].error = NoText
        /\ \E k \in EntriesOf(investments, d) :
               /\ ~investments[k].isLoading
               /\ investments[k].navHistory = <<>>
               /\ investments[k].error = Defined("Failed to fetch data.")

\* a loaded investment without counterpart data carries the notice
Loading_ComparisonUnavailable ==
    \E c \in 1..Len(addCalls) :
        /\ addCalls[c].pc = "done"
        /\ addCalls[c].mainData.defined
        /\ ~addCalls[c].counterpartData.defined
        /\ addCalls[c].counterpart.defined
        /\ \E k \in EntriesOf(investments, c) :
               investments[k].error = Defined("Comparison data unavailable")

(***************************************************************************)
(* Properties of the fund search                                           *)
(***************************************************************************)
\* no debounce timer is pending and no searchMF call is in flight
SearchQuiet ==
    \A t \in 1..Len(timers) : timers[t].pc \in {"cleared", "done"}

\* C27: isSearching is true only while a search is pending or running:
\* after any sequence of query edits, once no debounce timer is pending and
\* no searchMF call is in flight, isSearching is false, also when the
\* query was shortened below 3 characters before the timer fired.
C27_SearchingOnlyWhileBusy ==
    (pc = "search" /\ SearchQuiet) => ~isSearching

\* as long as no timer was cleared the flag is down when the search is quiet
Search_QuietWithoutCancel ==
    (pc = "search" /\ \A t \in 1..Len(timers) : timers[t].pc # "cleared") =>
        (SearchQuiet => ~isSearching)

\* the query was cut below three characters before the timer fired: the
\* timer is cleared, nothing runs and the spinner stays
Search_SpinnerStuck ==
    /\ pc = "search"
    /\ Len(query) < MinQueryLength
    /\ Len(timers) = 1
    /\ timers[1].pc = "cleared"
    /\ isSearching

(***************************************************************************)
(* Properties of the portfolio import                                      *)
(***************************************************************************)
\* the file parses as a JSON array in which every item has a truthy id,
\* schemeCode and amount
ValidPortfolioFile(content) ==
    /\ content.kind = "array"
    /\ \A k \in 1..Len(content.items) :
           /\ content.items[k].defined
           /\ content.items[k].value.id.defined
           /\ content.items[k].value.id.value # 0
           /\ content.items[k].value.schemeCode.defined
           /\ content.items[k].value.schemeCode.value # 0
           /\ content.items[k].value.amount.defined
           /\ content.items[k].value.amount.value # 0

\* the list is the file's items, each with its tags or with none
ReplacedBy(invs, items) ==
    /\ Len(invs) = Len(items)
    /\ \A k \in 1..Len(items) :
           /\ invs[k].tags.defined
           /\ invs[k].tags.value = IF items[k].value.tags.defined
                                   THEN items[k].value.tags.value ELSE <<>>
           /\ [invs[k] EXCEPT !.tags = items[k].value.tags] = items[k].value

\* C28: importing a portfolio file leaves the investments list unchanged
\* unless the file parses as a JSON array in which every item has a truthy
\* id, schemeCode and amount; a valid file replaces the whole list, with
\* tags defaulted to an empty array where missing.
C28_ImportReplacesOrKeeps ==
    [][\A r \in 1..Len(fileReads) :
          (/\ pc = "app"
           /\ Len(fileReads') = Len(fileReads)
           /\ fileReads[r].pc = "reading"
           /\ fileReads'[r].pc = "done") =>
              IF ValidPortfolioFile(fileReads[r].content)
              THEN ReplacedBy(investments', fileReads[r].content.items)
              ELSE investments' = investments]_vars

\* a legacy export without tags was imported over a list of other
\* investments and its item now carries empty tags
C28_Witness ==
    /\ pc = "app"
    /\ \E r \in 1..Len(fileReads) :
           /\ fileReads[r].pc = "done"
           /\ ValidPortfolioFile(fileReads[r].content)
           /\ Len(fileReads[r].content.items) = 1
           /\ ~fileReads[r].content.items[1].value.tags.defined
           /\ ReplacedBy(investments, fileReads[r].content.items)
    /\ Len(addCalls) > 0
    /\ ~Listed(investments, addCalls[1].id)

\* a file with a null item was read and the list still holds the
\* investment added before
Import_RejectedKeepsList ==
    /\ pc = "app"
    /\ \E r \in 1..Len(fileReads) :
           /\ fileReads[r].pc = "done"
           /\ \E k \in 1..Len(fileReads[r].content.items) :
                  ~fileReads[r].content.items[k].defined
    /\ Len(addCalls) > 0
    /\ Listed(investments, addCalls[1].id)

====
